---- MODULE Spec2Model ----
(***************************************************************************)
(* ReinaManager (src-tauri): the path manager of utils/fs.rs with its      *)
(* process-lifetime path cache, and the save-data backup orchestrator of   *)
(* backup/savedata.rs, as state machines.                                  *)
(*                                                                         *)
(* Conventions                                                             *)
(*   Option<T>      None is <<>>, Some(x) is <<x>>.                        *)
(*   String         a sequence of characters drawn from Chars, so that    *)
(*                  trim() and is_empty() are computed, not assumed.       *)
(*   PathBuf        a record [root, str, comps]: where the path starts     *)
(*                  (a string given by the user, the resource directory   *)
(*                  or the application-data directory of the platform)    *)
(*                  and the components joined to it, in order.             *)
(*   Result<P, E>   a record [tag, path, err] with tag "Ok" or "Err".      *)
(***************************************************************************)
EXTENDS Integers, Sequences, FiniteSets, TLC

\* ------------------------------------------------------------------ bounds

\* Longest override string a settings row holds.
MaxStrLen == 2
\* Writes to the user settings row in one behaviour of the concurrent
\* specification, and of the resolving one.
MaxWrites == 2
MaxResolveWrites == 1
\* Game ids 1..MaxGames, and the last tick of the clock.
MaxGames == 1
MaxClock == 2
\* Ticks of the clock in one second: Utc::now() is finer than the second the
\* file name keeps.
TicksPerSecond == 2

\* The concurrent callers (tauri commands run as tasks of one runtime).
Tasks == {"t1", "t2"}
NoTask == "none"

\* The characters of a string: one whitespace and one other character.
Chars == {" ", "a"}

\* Every string of at most n characters.
StringsUpTo(n) == UNION {[1..k -> Chars] : k \in 0..n}

\* The strings the settings writes of the concurrent specification store.
WriteInputs == {<<"a">>}

\* ------------------------------------------------------------ Option, Result

None == <<>>
Some(x) == <<x>>
IsSome(o) == o /= None
Unwrap(o) == o[1]

NoPath == [root |-> "", str |-> <<>>, comps |-> <<>>]
Ok(p) == [tag |-> "Ok", path |-> p, err |-> ""]
Err(e) == [tag |-> "Err", path |-> NoPath, err |-> e]
NoResult == [tag |-> "", path |-> NoPath, err |-> ""]

\* ---------------------------------------------------------------- constants

DB_DATA_DIR == "data"
DB_FILE_NAME == "reina_manager.db"
DB_BACKUP_SUBDIR == "backups"
RESOURCE_DIR == "resources"

\* ------------------------------------------------------------------- strings

IsWhitespace(c) == c = " "

RECURSIVE trim_start(_)
trim_start(s) ==
    IF Len(s) = 0 THEN s
    ELSE IF IsWhitespace(Head(s)) THEN trim_start(Tail(s))
    ELSE s

RECURSIVE trim_end(_)
trim_end(s) ==
    IF Len(s) = 0 THEN s
    ELSE IF IsWhitespace(s[Len(s)]) THEN trim_end(SubSeq(s, 1, Len(s) - 1))
    ELSE s

trim(s) == trim_end(trim_start(s))

is_empty(s) == Len(s) = 0

\* --------------------------------------------------------------------- paths

\* PathBuf::from(string): the string as it is.
PathBuf_from(s) == [root |-> "custom", str |-> s, comps |-> <<>>]

\* PathBuf::join of a relative component.
Join(p, c) == [p EXCEPT !.comps = Append(@, c)]

\* What app.path().resource_dir() and app.path().app_data_dir() name.
ResourceDirPath == [root |-> "resource_dir", str |-> <<>>, comps |-> <<>>]
AppDataDirPath == [root |-> "app_data_dir", str |-> <<>>, comps |-> <<>>]

\* --------------------------------------------------------------------- state

VARIABLES
    \* PathManager.cache: the PathCache behind the mutex, and the mutex's holder
    cache, lock,
    \* the single user settings row (None: no row yet), and the writes to it
    \* that the behaviour may still make
    user, writes_left,
    \* the platform: whether resource_dir() / app_data_dir() resolve
    resource_dir_ok, app_data_dir_ok,
    \* the portable marker on disk: resources/data and the database file in it
    portable_data_dir, portable_db_file,
    \* each task: its position, the operation and path kind of its call, its
    \* locals custom_path and path, and what its last call returned
    pc, op, kind, custom_path, path, result,
    \* what a task observed: the kinds it found cached when its last call
    \* looked under the lock, and while a call is under way the settings row
    \* its query returned and the marker its mode check read (both dropped
    \* when the call returns)
    seen, row_read, fs_read,
    \* the base directory of the last Portable detection since the cache was
    \* last cleared (None: none)
    detected,
    \* the disk of the backups: what each source path is, whether the backup
    \* root and each game's directory exist, and the archive files by name
    src_kind, root_exists, game_dirs, archives,
    \* the clock Utc::now() reads, in seconds
    clock,
    \* each task's create_savedata_backup call: its position, its arguments
    \* game_id and source_path, its backup_file_path, and what it returned
    b_pc, b_game, b_source, b_file, b_result

settings == <<user, writes_left>>
platform == <<resource_dir_ok, app_data_dir_ok>>
marker == <<portable_data_dir, portable_db_file>>
locals == <<custom_path, path, row_read, fs_read>>

pmvars == <<cache, lock, settings, platform, marker, pc, op, kind, locals,
            result, seen, detected>>

disk == <<root_exists, game_dirs, archives>>
b_locals == <<b_game, b_source, b_file>>

bkvars == <<src_kind, disk, clock, b_pc, b_locals, b_result>>

VARIABLES
    \* create_7z_archive over one source: the directory tree under the source,
    \* the order read_dir lists a directory in, the call's position, the
    \* archive file at the destination, the entries pushed into the
    \* SevenZWriter, and what create_savedata_backup returned for it
    tree, listing, a_pc, a_file, sz, a_result,
    \* delete_savedata_backup and delete_file: the host the program was built
    \* for, the paths that are files on its disk, the call's position, its
    \* operation and path argument, and what it returned
    host, files, d_pc, d_op, d_path, d_result,
    \* move_backup_folder: the directories at old_path and new_path, whether
    \* the parent of new_path exists, the call's position and its MoveResult
    \* (m_at_call: the three as they were when the last call began)
    old_dir, new_dir, new_parent, m_pc, m_result, m_at_call,
    \* the game_statistics table, and each task's call on it: its position,
    \* its arguments, whether its first query found a row, and what it returned
    game_statistics, s_pc, s_args, s_existing, s_result,
    \* delete_game_covers: the names of the files in the covers directory
    \* (None: no such directory), the call's position, its game_id, the
    \* entries read_dir has yet to yield, and what the call returned (c_before:
    \* the directory when the last call began; c_failed: the files whose
    \* removal failed in it)
    covers, c_pc, c_game_id, c_todo, c_result, c_before, c_failed,
    \* the games table and the three tables of related rows as committed, the
    \* open transaction's view of them (None: no transaction), and the call of
    \* insert_with_related or update_with_related: its position, its
    \* arguments and what it returned
    tables, txn, g_pc, g_call, g_result

arvars == <<tree, listing, a_pc, a_file, sz, a_result>>
dlvars == <<host, files, d_pc, d_op, d_path, d_result>>
mvvars == <<old_dir, new_dir, new_parent, m_pc, m_result, m_at_call>>
stvars == <<game_statistics, s_pc, s_args, s_existing, s_result>>
cvvars == <<covers, c_pc, c_game_id, c_todo, c_result, c_before, c_failed>>
gmvars == <<tables, txn, g_pc, g_call, g_result>>
cgvars == <<cvvars, gmvars>>

\* What the path manager and create_savedata_backup leave alone.
rest == <<arvars, dlvars, mvvars, stvars, cgvars>>

vars == <<pmvars, bkvars, rest>>

\* PathCache::default()
PathCache_default == [db_backup_path |-> None, savedata_backup_path |-> None]

\* The cache field of a path kind.
Entry(c, k) == IF k = "db" THEN c.db_backup_path ELSE c.savedata_backup_path

\* The kinds a cache holds a path for.
Populated(c) == {k \in {"db", "save"} : IsSome(Entry(c, k))}

\* ---------------------------------------------------------- path functions

\* Mutant: the mode check looks at resources/data alone.
is_portable_mode_dir_only ==
    IF resource_dir_ok THEN portable_data_dir ELSE FALSE

is_portable_mode ==
    IF resource_dir_ok
    THEN portable_data_dir /\ portable_db_file
    ELSE FALSE

get_base_data_dir ==
    IF is_portable_mode
    THEN (IF resource_dir_ok
          THEN Ok(Join(ResourceDirPath, RESOURCE_DIR))
          ELSE Err("resource_dir"))
    ELSE (IF app_data_dir_ok THEN Ok(AppDataDirPath) ELSE Err("app_data_dir"))

get_db_path ==
    LET base == get_base_data_dir
    IN  IF base.tag = "Err" THEN base
        ELSE Ok(Join(Join(base.path, DB_DATA_DIR), DB_FILE_NAME))

\* user.and_then(|u| u.db_backup_path).filter(|s| !s.trim().is_empty())
get_db_backup_path_from_db(u) ==
    LET field == IF IsSome(u) THEN Unwrap(u).db_backup_path ELSE None
    IN  IF IsSome(field) /\ ~is_empty(trim(Unwrap(field))) THEN field ELSE None

\* Mutant: the filter tests is_empty() without trim().
get_save_root_path_from_db_untrimmed(u) ==
    LET field == IF IsSome(u) THEN Unwrap(u).save_root_path ELSE None
    IN  IF IsSome(field) /\ ~is_empty(Unwrap(field)) THEN field ELSE None

\* user.and_then(|u| u.save_root_path).filter(|s| !s.trim().is_empty())
get_save_root_path_from_db(u) ==
    LET field == IF IsSome(u) THEN Unwrap(u).save_root_path ELSE None
    IN  IF IsSome(field) /\ ~is_empty(trim(Unwrap(field))) THEN field ELSE None

\* Mutant: the default db-backup directory is not put under `data`.
get_default_db_backup_path_without_data ==
    LET base == get_base_data_dir
    IN  IF base.tag = "Err" THEN base
        ELSE Ok(Join(base.path, DB_BACKUP_SUBDIR))

get_default_db_backup_path ==
    LET base == get_base_data_dir
    IN  IF base.tag = "Err" THEN base
        ELSE Ok(Join(Join(base.path, DB_DATA_DIR), DB_BACKUP_SUBDIR))

\* Mutant: the default savedata directory is the db-backup one.
get_default_savedata_backup_path_under_data ==
    LET base == get_base_data_dir
    IN  IF base.tag = "Err" THEN base
        ELSE Ok(Join(Join(base.path, DB_DATA_DIR), "backups"))

get_default_savedata_backup_path ==
    LET base == get_base_data_dir
    IN  IF base.tag = "Err" THEN base
        ELSE Ok(Join(base.path, "backups"))

\* The path get_db_backup_path builds from a custom path.
custom_db_backup_path(custom) == PathBuf_from(custom)

\* Mutant: the save root is used as the backup directory itself.
custom_savedata_backup_path_verbatim(custom) == PathBuf_from(custom)

\* The path get_savedata_backup_path builds from a custom path.
custom_savedata_backup_path(custom) == Join(PathBuf_from(custom), "backups")

\* The detection after an evaluation of get_base_data_dir.
Detect == IF is_portable_mode /\ get_base_data_dir.tag = "Ok"
          THEN Some(get_base_data_dir.path)
          ELSE detected

\* ------------------------------------------------- PathManager: the getters

\* A call starts by taking the mutex (lines 104 and 138): the task waits
\* until it is free.
StartGet(t, k) ==
    /\ pc[t] = "idle"
    /\ lock = NoTask
    /\ lock' = t
    /\ pc' = [pc EXCEPT ![t] = "check"]
    /\ op' = [op EXCEPT ![t] = "get"]
    /\ kind' = [kind EXCEPT ![t] = k]
    /\ result' = [result EXCEPT ![t] = NoResult]
    /\ seen' = [seen EXCEPT ![t] = {}]
    /\ UNCHANGED <<cache, settings, platform, marker, locals, detected>>
    /\ UNCHANGED <<bkvars, rest>>

get_db_backup_path_call(t) == StartGet(t, "db")

get_savedata_backup_path_call(t) == StartGet(t, "save")

\* Mutant: the guard taken for the check is held until the path is stored.
check_cache_keeping_lock(t) ==
    /\ pc[t] = "check"
    /\ lock = t
    /\ seen' = [seen EXCEPT ![t] = Populated(cache)]
    /\ IF IsSome(Entry(cache, kind[t]))
       THEN /\ result' = [result EXCEPT ![t] = Ok(Unwrap(Entry(cache, kind[t])))]
            /\ pc' = [pc EXCEPT ![t] = "idle"]
            /\ lock' = NoTask
       ELSE /\ pc' = [pc EXCEPT ![t] = "query"]
            /\ UNCHANGED <<result, lock>>
    /\ UNCHANGED <<cache, settings, platform, marker, op, kind, locals,
                   detected>>
    /\ UNCHANGED <<bkvars, rest>>

\* Mutant: a hit is not trusted; the path is resolved again.
check_cache_revalidating(t) ==
    /\ pc[t] = "check"
    /\ lock = t
    /\ seen' = [seen EXCEPT ![t] = Populated(cache)]
    /\ pc' = [pc EXCEPT ![t] = "query"]
    /\ lock' = NoTask
    /\ UNCHANGED <<cache, settings, platform, marker, op, kind, locals,
                   result, detected>>
    /\ UNCHANGED <<bkvars, rest>>

\* The first block: a hit returns the cached path; either way the guard is
\* dropped when the block is left.
check_cache(t) ==
    /\ pc[t] = "check"
    /\ lock = t
    /\ seen' = [seen EXCEPT ![t] = Populated(cache)]
    /\ IF IsSome(Entry(cache, kind[t]))
       THEN /\ result' = [result EXCEPT ![t] = Ok(Unwrap(Entry(cache, kind[t])))]
            /\ pc' = [pc EXCEPT ![t] = "idle"]
       ELSE /\ pc' = [pc EXCEPT ![t] = "query"]
            /\ UNCHANGED result
    /\ lock' = NoTask
    /\ UNCHANGED <<cache, settings, platform, marker, op, kind, locals,
                   detected>>
    /\ UNCHANGED <<bkvars, rest>>

\* User::find().one(db).await: the query fails, or returns the row as it is
\* now, from which the override of the call's kind is taken.
query_settings(t) ==
    /\ pc[t] = "query"
    /\ \E failed \in BOOLEAN :
         IF failed
         THEN /\ result' = [result EXCEPT ![t] = Err("query_user_settings")]
              /\ pc' = [pc EXCEPT ![t] = "idle"]
              /\ UNCHANGED <<custom_path, row_read>>
         ELSE /\ custom_path' = [custom_path EXCEPT ![t] =
                     IF kind[t] = "db" THEN get_db_backup_path_from_db(user)
                     ELSE get_save_root_path_from_db(user)]
              /\ row_read' = [row_read EXCEPT ![t] = Some(user)]
              /\ pc' = [pc EXCEPT ![t] = "resolve"]
              /\ UNCHANGED result
    /\ UNCHANGED <<cache, lock, settings, platform, marker, op, kind, path,
                   fs_read, seen, detected>>
    /\ UNCHANGED <<bkvars, rest>>

\* let path = if let Some(custom) = custom_path { .. } else { default? }
resolve_path(t) ==
    /\ pc[t] = "resolve"
    /\ IF IsSome(custom_path[t])
       THEN /\ path' = [path EXCEPT ![t] =
                   IF kind[t] = "db"
                   THEN custom_db_backup_path(Unwrap(custom_path[t]))
                   ELSE custom_savedata_backup_path(Unwrap(custom_path[t]))]
            /\ pc' = [pc EXCEPT ![t] = "commit"]
            /\ UNCHANGED <<result, fs_read, custom_path, row_read, detected>>
       ELSE LET default == IF kind[t] = "db" THEN get_default_db_backup_path
                           ELSE get_default_savedata_backup_path
            IN  /\ detected' = Detect
                /\ IF default.tag = "Err"
                   THEN /\ result' = [result EXCEPT ![t] = default]
                        /\ pc' = [pc EXCEPT ![t] = "idle"]
                        /\ custom_path' = [custom_path EXCEPT ![t] = None]
                        /\ row_read' = [row_read EXCEPT ![t] = None]
                        /\ UNCHANGED <<path, fs_read>>
                   ELSE /\ path' = [path EXCEPT ![t] = default.path]
                        /\ pc' = [pc EXCEPT ![t] = "commit"]
                        /\ fs_read' = [fs_read EXCEPT ![t] =
                               Some([dir |-> portable_data_dir,
                                     file |-> portable_db_file])]
                        /\ UNCHANGED <<result, custom_path, row_read>>
    /\ UNCHANGED <<cache, lock, settings, platform, marker, op, kind, seen>>
    /\ UNCHANGED <<bkvars, rest>>

\* The second block takes the mutex again (lines 123 and 157).
lock_for_store(t) ==
    /\ pc[t] = "commit"
    /\ lock = NoTask
    /\ lock' = t
    /\ pc' = [pc EXCEPT ![t] = "store"]
    /\ UNCHANGED <<cache, settings, platform, marker, op, kind, locals,
                   result, seen, detected>>
    /\ UNCHANGED <<bkvars, rest>>

\* Mutant: the path is stored in both entries.
store_cache_both_entries(t) ==
    /\ pc[t] = "store"
    /\ lock = t
    /\ cache' = [db_backup_path |-> Some(path[t]),
                 savedata_backup_path |-> Some(path[t])]
    /\ lock' = NoTask
    /\ result' = [result EXCEPT ![t] = Ok(path[t])]
    /\ pc' = [pc EXCEPT ![t] = "idle"]
    /\ custom_path' = [custom_path EXCEPT ![t] = None]
    /\ path' = [path EXCEPT ![t] = NoPath]
    /\ row_read' = [row_read EXCEPT ![t] = None]
    /\ fs_read' = [fs_read EXCEPT ![t] = None]
    /\ UNCHANGED <<settings, platform, marker, op, kind, seen, detected>>
    /\ UNCHANGED <<bkvars, rest>>

\* cache.<kind> = Some(path.clone()); the guard is dropped; Ok(path)
store_cache(t) ==
    /\ pc[t] = "store"
    /\ lock = t
    /\ cache' = IF kind[t] = "db"
                THEN [cache EXCEPT !.db_backup_path = Some(path[t])]
                ELSE [cache EXCEPT !.savedata_backup_path = Some(path[t])]
    /\ lock' = NoTask
    /\ result' = [result EXCEPT ![t] = Ok(path[t])]
    /\ pc' = [pc EXCEPT ![t] = "idle"]
    /\ custom_path' = [custom_path EXCEPT ![t] = None]
    /\ path' = [path EXCEPT ![t] = NoPath]
    /\ row_read' = [row_read EXCEPT ![t] = None]
    /\ fs_read' = [fs_read EXCEPT ![t] = None]
    /\ UNCHANGED <<settings, platform, marker, op, kind, seen, detected>>
    /\ UNCHANGED <<bkvars, rest>>

\* ------------------------------------------------- PathManager: clear_cache

\* let mut cache = self.cache.lock()
clear_cache_call(t) ==
    /\ pc[t] = "idle"
    /\ lock = NoTask
    /\ lock' = t
    /\ pc' = [pc EXCEPT ![t] = "clear"]
    /\ op' = [op EXCEPT ![t] = "clear_cache"]
    /\ result' = [result EXCEPT ![t] = NoResult]
    /\ seen' = [seen EXCEPT ![t] = {}]
    /\ UNCHANGED <<cache, settings, platform, marker, kind, locals, detected>>
    /\ UNCHANGED <<bkvars, rest>>

\* Mutant: only the db-backup entry is cleared.
clear_cache_db_only(t) ==
    /\ pc[t] = "clear"
    /\ lock = t
    /\ seen' = [seen EXCEPT ![t] = Populated(cache)]
    /\ cache' = [cache EXCEPT !.db_backup_path = None]
    /\ lock' = NoTask
    /\ pc' = [pc EXCEPT ![t] = "idle"]
    /\ detected' = None
    /\ UNCHANGED <<settings, platform, marker, op, kind, locals, result>>
    /\ UNCHANGED <<bkvars, rest>>

\* *cache = PathCache::default(); the guard is dropped
clear_cache(t) ==
    /\ pc[t] = "clear"
    /\ lock = t
    /\ seen' = [seen EXCEPT ![t] = Populated(cache)]
    /\ cache' = PathCache_default
    /\ lock' = NoTask
    /\ pc' = [pc EXCEPT ![t] = "idle"]
    /\ detected' = None
    /\ UNCHANGED <<settings, platform, marker, op, kind, locals, result>>
    /\ UNCHANGED <<bkvars, rest>>

\* --------------------------------------------- the uncached path functions

\* A task calls get_base_data_dir or get_db_path ...
CallUncached(t, name) ==
    /\ pc[t] = "idle"
    /\ pc' = [pc EXCEPT ![t] = name]
    /\ op' = [op EXCEPT ![t] = name]
    /\ result' = [result EXCEPT ![t] = NoResult]
    /\ seen' = [seen EXCEPT ![t] = {}]
    /\ UNCHANGED <<cache, lock, settings, platform, marker, kind, locals,
                   detected>>
    /\ UNCHANGED <<bkvars, rest>>

\* ... which reads the marker and the platform's directories and returns.
ReturnUncached(t, name, r) ==
    /\ pc[t] = name
    /\ pc' = [pc EXCEPT ![t] = "idle"]
    /\ result' = [result EXCEPT ![t] = r]
    /\ detected' = Detect
    /\ UNCHANGED <<cache, lock, settings, platform, marker, op, kind, locals,
                   seen>>
    /\ UNCHANGED <<bkvars, rest>>

get_base_data_dir_call(t) == CallUncached(t, "get_base_data_dir")

get_base_data_dir_return(t) ==
    ReturnUncached(t, "get_base_data_dir", get_base_data_dir)

get_db_path_call(t) == CallUncached(t, "get_db_path")

get_db_path_return(t) == ReturnUncached(t, "get_db_path", get_db_path)

\* ------------------------------------------------------- the settings row

\* ensure_user_exists: the row as it is, or a new row with no override.
ensure_user_exists(u) ==
    IF IsSome(u) THEN Unwrap(u)
    ELSE [db_backup_path |-> None, save_root_path |-> None]

WriteUser(row) ==
    /\ writes_left > 0
    /\ writes_left' = writes_left - 1
    /\ user' = Some(row)
    /\ UNCHANGED <<cache, lock, platform, marker, pc, op, kind, locals,
                   result, seen, detected>>
    /\ UNCHANGED <<bkvars, rest>>

set_save_root_path(p) ==
    WriteUser([ensure_user_exists(user) EXCEPT !.save_root_path = Some(p)])

clear_save_root_path ==
    WriteUser([ensure_user_exists(user) EXCEPT !.save_root_path = None])

\* update_settings(bgm_token, save_root_path): a field given as None is left
\* as it is (the token is no part of this model).
update_settings(save_root_path) ==
    WriteUser(IF IsSome(save_root_path)
              THEN [ensure_user_exists(user) EXCEPT
                        !.save_root_path = Some(Unwrap(save_root_path))]
              ELSE ensure_user_exists(user))

\* ------------------------------------------------- the portable marker

\* What is_portable_mode reads is changed by whoever moves the installation's
\* data: resources/data and resources/data/reina_manager.db come and go.
SetMarker(dir, file) ==
    /\ portable_data_dir' = dir
    /\ portable_db_file' = file
    /\ UNCHANGED <<cache, lock, settings, platform, pc, op, kind, locals,
                   result, seen, detected>>
    /\ UNCHANGED <<bkvars, rest>>

create_portable_data_dir ==
    /\ ~portable_data_dir
    /\ SetMarker(TRUE, FALSE)

create_portable_db_file ==
    /\ portable_data_dir /\ ~portable_db_file
    /\ SetMarker(TRUE, TRUE)

remove_portable_db_file ==
    /\ portable_db_file
    /\ SetMarker(TRUE, FALSE)

remove_portable_data_dir ==
    /\ portable_data_dir
    /\ SetMarker(FALSE, FALSE)

\* ------------------------------------------- backup/savedata.rs: the disk

GameIds == 1..MaxGames
Sources == {"s1", "s2"}

\* now.timestamp(), and the second now.format("%Y%m%d_%H%M%S") prints.
Second(now) == now \div TicksPerSecond

\* backup_root/game_{game_id}/savedata_{game_id}_{%Y%m%d_%H%M%S}.7z: the
\* path is decided by the game and the second.
backup_file_path(g, now) == [game |-> g, stamp |-> Second(now)]

ArchiveNames == [game : GameIds, stamp : 0..Second(MaxClock)]

\* No file at a path; a file as File::create leaves it; a finished archive.
NoArchive == [status |-> "none", source |-> ""]
PartialArchive(src) == [status |-> "partial", source |-> src]
CompleteArchive(src) == [status |-> "complete", source |-> src]

BOk(info) == [tag |-> "Ok", err |-> "", info |-> Some(info)]
BErr(e) == [tag |-> "Err", err |-> e, info |-> None]
BNoResult == [tag |-> "", err |-> "", info |-> None]

InitNoBackups ==
    /\ src_kind = [s \in Sources |-> "absent"]
    /\ root_exists = FALSE
    /\ game_dirs = {}
    /\ archives = [n \in ArchiveNames |-> NoArchive]
    /\ clock = 0
    /\ b_pc = [t \in Tasks |-> "idle"]
    /\ b_game = [t \in Tasks |-> 1]
    /\ b_source = [t \in Tasks |-> "s1"]
    /\ b_file = [t \in Tasks |-> None]
    /\ b_result = [t \in Tasks |-> BNoResult]

\* ------------------------------------------------ create_savedata_backup

create_savedata_backup_call(t, game_id, source_path) ==
    /\ b_pc[t] = "idle"
    /\ b_pc' = [b_pc EXCEPT ![t] = "exists"]
    /\ b_game' = [b_game EXCEPT ![t] = game_id]
    /\ b_source' = [b_source EXCEPT ![t] = source_path]
    /\ b_file' = [b_file EXCEPT ![t] = None]
    /\ b_result' = [b_result EXCEPT ![t] = BNoResult]
    /\ UNCHANGED <<pmvars, rest, src_kind, disk, clock>>

\* A call returns r; its arguments and locals are gone.
BackupReturn(t, r) ==
    /\ b_pc' = [b_pc EXCEPT ![t] = "idle"]
    /\ b_result' = [b_result EXCEPT ![t] = r]
    /\ b_file' = [b_file EXCEPT ![t] = None]
    /\ b_game' = [b_game EXCEPT ![t] = 1]
    /\ b_source' = [b_source EXCEPT ![t] = "s1"]

\* A call goes on to its next statement.
BackupGoto(t, label) ==
    /\ b_pc' = [b_pc EXCEPT ![t] = label]
    /\ UNCHANGED <<b_game, b_source, b_result>>

\* Mutant: the game's directory is made before the source is looked at.
check_source_exists_after_mkdir(t) ==
    /\ b_pc[t] = "exists"
    /\ root_exists' = TRUE
    /\ game_dirs' = game_dirs \cup {b_game[t]}
    /\ IF src_kind[b_source[t]] = "absent"
       THEN BackupReturn(t, BErr("source_missing"))
       ELSE BackupGoto(t, "is_dir") /\ UNCHANGED b_file
    /\ UNCHANGED <<pmvars, rest, src_kind, archives, clock>>

\* if !source_path.exists() { return Err(..) }
check_source_exists(t) ==
    /\ b_pc[t] = "exists"
    /\ IF src_kind[b_source[t]] = "absent"
       THEN BackupReturn(t, BErr("source_missing"))
       ELSE BackupGoto(t, "is_dir") /\ UNCHANGED b_file
    /\ UNCHANGED <<pmvars, rest, src_kind, disk, clock>>

\* if !source_path.is_dir() { return Err(..) }
check_source_is_dir(t) ==
    /\ b_pc[t] = "is_dir"
    /\ IF src_kind[b_source[t]] /= "dir"
       THEN BackupReturn(t, BErr("source_not_a_directory"))
       ELSE BackupGoto(t, "mkdir") /\ UNCHANGED b_file
    /\ UNCHANGED <<pmvars, rest, src_kind, disk, clock>>

\* fs::create_dir_all(&game_backup_dir)?: both directories exist afterwards,
\* or it fails, having made nothing or the backup root alone.
create_game_backup_dir(t) ==
    /\ b_pc[t] = "mkdir"
    /\ \E outcome \in {"ok", "failed", "failed_after_root"} :
         IF outcome = "ok"
         THEN /\ root_exists' = TRUE
              /\ game_dirs' = game_dirs \cup {b_game[t]}
              /\ BackupGoto(t, "name") /\ UNCHANGED b_file
         ELSE /\ root_exists' = (root_exists \/ outcome = "failed_after_root")
              /\ UNCHANGED game_dirs
              /\ BackupReturn(t, BErr("create_backup_dir"))
    /\ UNCHANGED <<pmvars, rest, src_kind, archives, clock>>

\* let now = Utc::now(); backup_file_path = game_backup_dir.join(file name)
make_backup_file_path(t) ==
    /\ b_pc[t] = "name"
    /\ b_file' = [b_file EXCEPT ![t] =
           Some([path |-> backup_file_path(b_game[t], clock),
                 timestamp |-> Second(clock)])]
    /\ BackupGoto(t, "create")
    /\ UNCHANGED <<pmvars, rest, src_kind, disk, clock>>

\* fs::File::create(archive_path)?: the file is made, or cut to nothing if
\* it was there; it fails when the game's directory is gone, or for a reason
\* of the disk's own.
create_archive_file(t) ==
    /\ b_pc[t] = "create"
    /\ \E failed \in BOOLEAN :
         IF failed \/ b_game[t] \notin game_dirs
         THEN /\ BackupReturn(t, BErr("create_archive"))
              /\ UNCHANGED archives
         ELSE /\ archives' = [archives EXCEPT ![Unwrap(b_file[t]).path] =
                     PartialArchive(b_source[t])]
              /\ BackupGoto(t, "write") /\ UNCHANGED b_file
    /\ UNCHANGED <<pmvars, rest, src_kind, root_exists, game_dirs, clock>>

\* add_directory_to_archive(..)?; sz.finish()?: every file of the source is
\* written and the archive finished, or a read or a write fails and the file
\* stays as far as it got.
write_archive(t) ==
    /\ b_pc[t] = "write"
    /\ \E failed \in BOOLEAN :
         IF failed
         THEN /\ BackupReturn(t, BErr("create_archive"))
              /\ UNCHANGED archives
         ELSE /\ archives' = [archives EXCEPT ![Unwrap(b_file[t]).path] =
                     CompleteArchive(b_source[t])]
              /\ BackupGoto(t, "metadata") /\ UNCHANGED b_file
    /\ UNCHANGED <<pmvars, rest, src_kind, root_exists, game_dirs, clock>>

\* fs::metadata(archive_path)?.len(), then Ok(BackupInfo { .. }): the size
\* is that of the file as it is now.
archive_metadata(t) ==
    /\ b_pc[t] = "metadata"
    /\ \E failed \in BOOLEAN :
         IF failed
         THEN BackupReturn(t, BErr("create_archive"))
         ELSE BackupReturn(t, BOk(
                [folder_name |-> Unwrap(b_file[t]).path,
                 backup_time |-> Unwrap(b_file[t]).timestamp,
                 file_size |-> archives[Unwrap(b_file[t]).path],
                 backup_path |-> Unwrap(b_file[t]).path]))
    /\ UNCHANGED <<pmvars, rest, src_kind, disk, clock>>

\* Time passes.
tick ==
    /\ clock < MaxClock
    /\ clock' = clock + 1
    /\ UNCHANGED <<pmvars, rest, src_kind, disk, b_pc, b_locals, b_result>>

\* ------------------------------- backup/savedata.rs: create_7z_archive

\* The units of a file name: a character, a unit that is no valid Unicode (a
\* lone surrogate on Windows, a stray byte on Linux), and U+FFFD itself.
OsNames == {"a", "xFF", "uFFFD"}

\* OsStr::to_string_lossy(): what is no valid Unicode becomes U+FFFD.
to_string_lossy(file_name) == IF file_name = "xFF" THEN "uFFFD" ELSE file_name

\* The paths, relative to the source root, a source tree may hold.
TreePaths ==
    {<<"a">>, <<"xFF">>, <<"a", "a">>, <<"a", "xFF">>, <<"a", "uFFFD">>,
     <<"a", "a", "a">>}

\* What is at a path: nothing, a directory, or a regular file of some bytes.
FileBytes == {"b0", "b1"}
NodeKinds == {"absent", "dir"} \cup FileBytes

\* The source trees: what exists lies in a directory.
Trees ==
    {T \in [TreePaths -> NodeKinds] :
        \A p \in TreePaths :
            (Len(p) > 1 /\ T[p] /= "absent")
                => T[SubSeq(p, 1, Len(p) - 1)] = "dir"}

\* fs::read_dir(dir_path): the entries of a directory.
read_dir(T, dir_path) ==
    {p \in TreePaths :
        /\ Len(p) = Len(dir_path) + 1
        /\ SubSeq(p, 1, Len(dir_path)) = dir_path
        /\ T[p] /= "absent"}

\* The order of a listing is the platform's: by name, one way or the other.
NameRank(n) == IF n = "a" THEN 0 ELSE IF n = "xFF" THEN 1 ELSE 2

ListedBefore(lst, p, q) ==
    IF lst = "asc"
    THEN NameRank(p[Len(p)]) < NameRank(q[Len(q)])
    ELSE NameRank(p[Len(p)]) > NameRank(q[Len(q)])

RECURSIVE InListingOrder(_, _)
InListingOrder(lst, ps) ==
    IF ps = {} THEN <<>>
    ELSE LET first == CHOOSE p \in ps :
                         \A q \in ps \ {p} : ListedBefore(lst, p, q)
         IN <<first>> \o InListingOrder(lst, ps \ {first})

\* add_directory_to_archive(sz, dir_path, archive_prefix): the entries it
\* pushes, in order, when nothing fails. An entry's name is the lossy file
\* name, after the prefix and a "/" when there is a prefix; a directory is
\* walked with that name as the prefix and pushes no entry of its own.
RECURSIVE add_directory_to_archive(_, _, _, _)
RECURSIVE add_entries(_, _, _, _)
add_entries(T, lst, entries, archive_prefix) ==
    IF entries = <<>> THEN <<>>
    ELSE LET entry_path == Head(entries)
             file_name_str == to_string_lossy(entry_path[Len(entry_path)])
             archive_path == IF is_empty(archive_prefix)
                             THEN <<file_name_str>>
                             ELSE archive_prefix \o <<"/", file_name_str>>
             pushed == IF T[entry_path] = "dir"
                       THEN add_directory_to_archive(T, lst, entry_path,
                                                     archive_path)
                       ELSE <<[name |-> archive_path, content |-> T[entry_path]]>>
         IN pushed \o add_entries(T, lst, Tail(entries), archive_prefix)

add_directory_to_archive(T, lst, dir_path, archive_prefix) ==
    add_entries(T, lst, InListingOrder(lst, read_dir(T, dir_path)),
                archive_prefix)

\* The archive file at the destination: none, or what has been written.
NoFile == [status |-> "none", entries |-> <<>>]

InitNoArchive ==
    /\ tree = [p \in TreePaths |-> "absent"]
    /\ listing = "asc"
    /\ a_pc = "idle"
    /\ a_file = NoFile
    /\ sz = <<>>
    /\ a_result = BNoResult

\* create_savedata_backup has made backup_file_path and calls
\* create_7z_archive(source_path, &backup_file_path).
create_7z_archive_call ==
    /\ a_pc = "idle"
    /\ a_pc' = "create"
    /\ sz' = <<>>
    /\ a_result' = BNoResult
    /\ UNCHANGED <<tree, listing, a_file>>
    /\ UNCHANGED <<pmvars, bkvars, cgvars, dlvars, mvvars, stvars>>

\* create_7z_archive returns; .map_err(|e| format!("创建压缩包失败: {}", e))?
\* makes any error of it the error of create_savedata_backup.
ArchiveReturn(r) ==
    /\ a_pc' = "idle"
    /\ a_result' = r

\* Mutant: a failed walk is passed over and the archive finished as it is.
add_files_ignoring_errors ==
    /\ a_pc = "add"
    /\ LET all == add_directory_to_archive(tree, listing, <<>>, <<>>)
       IN \E k \in 0..Len(all) :
            /\ sz' = SubSeq(all, 1, k)
            /\ a_file' = [status |-> "partial", entries |-> SubSeq(all, 1, k)]
            /\ a_pc' = "finish"
            /\ UNCHANGED a_result
    /\ UNCHANGED <<tree, listing>>
    /\ UNCHANGED <<pmvars, bkvars, cgvars, dlvars, mvvars, stvars>>

\* fs::File::create(archive_path)?; SevenZWriter::new(archive_file)?: an
\* empty file is there, whatever was there before, or nothing was touched.
archive_file_create ==
    /\ a_pc = "create"
    /\ \E failed \in BOOLEAN :
         IF failed
         THEN ArchiveReturn(BErr("create_archive")) /\ UNCHANGED a_file
         ELSE /\ a_file' = [status |-> "partial", entries |-> <<>>]
              /\ a_pc' = "add"
              /\ UNCHANGED a_result
    /\ UNCHANGED <<tree, listing, sz>>
    /\ UNCHANGED <<pmvars, bkvars, cgvars, dlvars, mvvars, stvars>>

\* add_directory_to_archive(&mut sz, source_dir, "")?: the walk pushes every
\* entry, or a read_dir, an entry, an fs::read or a push fails after the
\* first k entries and ends the walk there.
add_files ==
    /\ a_pc = "add"
    /\ LET all == add_directory_to_archive(tree, listing, <<>>, <<>>)
       IN \E k \in 0..Len(all), failed \in BOOLEAN :
            /\ (~failed) => k = Len(all)
            /\ sz' = SubSeq(all, 1, k)
            /\ a_file' = [status |-> "partial", entries |-> SubSeq(all, 1, k)]
            /\ IF failed
               THEN ArchiveReturn(BErr("create_archive"))
               ELSE a_pc' = "finish" /\ UNCHANGED a_result
    /\ UNCHANGED <<tree, listing>>
    /\ UNCHANGED <<pmvars, bkvars, cgvars, dlvars, mvvars, stvars>>

\* sz.finish()?: the headers are written and the archive is complete, or the
\* write fails and the file stays unfinished.
sz_finish ==
    /\ a_pc = "finish"
    /\ \E failed \in BOOLEAN :
         IF failed
         THEN ArchiveReturn(BErr("create_archive")) /\ UNCHANGED a_file
         ELSE /\ a_file' = [a_file EXCEPT !.status = "complete"]
              /\ a_pc' = "metadata"
              /\ UNCHANGED a_result
    /\ UNCHANGED <<tree, listing, sz>>
    /\ UNCHANGED <<pmvars, bkvars, cgvars, dlvars, mvvars, stvars>>

\* fs::metadata(archive_path)?.len(), then Ok(BackupInfo { .. }).
archive_len ==
    /\ a_pc = "metadata"
    /\ \E failed \in BOOLEAN :
         IF failed
         THEN ArchiveReturn(BErr("create_archive"))
         ELSE ArchiveReturn(BOk([file_size |-> Len(a_file.entries)]))
    /\ UNCHANGED <<tree, listing, a_file, sz>>
    /\ UNCHANGED <<pmvars, bkvars, cgvars, dlvars, mvvars, stvars>>

\* ---------------- delete_savedata_backup (savedata.rs), delete_file (fs.rs)

\* The paths the two commands are called with, as strings.
PathStrings == {<<"a">>, <<"a", "/", "a">>, <<"a", "\\", "a">>}

Hosts == {"windows", "linux"}

\* Result<(), String>
UnitOk == [tag |-> "Ok", err |-> ""]
UnitErr(e) == [tag |-> "Err", err |-> e]
UnitNoResult == [tag |-> "", err |-> ""]

\* backup_file_path.replace('/', "\\")
replace_slash(str) ==
    [i \in 1..Len(str) |-> IF str[i] = "/" THEN "\\" ELSE str[i]]

\* What separates the components of a path on a host: "/" everywhere, and
\* "\" on Windows; on Linux "\" is a character of a file name.
is_separator(h, c) == c = "/" \/ (h = "windows" /\ c = "\\")

\* Path::new(str) on a host: the components of the path, each a name.
RECURSIVE Components(_, _, _)
Components(h, str, name) ==
    IF str = <<>>
    THEN IF name = <<>> THEN <<>> ELSE <<name>>
    ELSE IF is_separator(h, Head(str))
    THEN (IF name = <<>> THEN <<>> ELSE <<name>>)
         \o Components(h, Tail(str), <<>>)
    ELSE Components(h, Tail(str), Append(name, Head(str)))

Path_new(h, str) == Components(h, str, <<>>)

\* The places on a host's disk those paths can name.
DiskPlaces(h) == {Path_new(h, str) : str \in PathStrings}

\* A place is a directory when a file lies under it.
IsDirectory(fs, place) ==
    \E f \in fs : Len(f) > Len(place) /\ SubSeq(f, 1, Len(place)) = place

\* Path::exists(): a file or a directory is there.
exists(fs, place) == place \in fs \/ IsDirectory(fs, place)

\* The disks of a host: some of the places are files, none of them under
\* another file.
Disks(h) ==
    {fs \in SUBSET DiskPlaces(h) : \A f \in fs : ~IsDirectory(fs, f)}

InitNoDeletes ==
    /\ host = "windows"
    /\ files = {}
    /\ d_pc = "idle"
    /\ d_op = "none"
    /\ d_path = <<>>
    /\ d_result = UnitNoResult

DeleteCall(name, str) ==
    /\ d_pc = "idle"
    /\ d_pc' = "exists"
    /\ d_op' = name
    /\ d_path' = str
    /\ d_result' = UnitNoResult
    /\ UNCHANGED <<host, files>>
    /\ UNCHANGED <<pmvars, bkvars, cgvars, arvars, mvvars, stvars>>

delete_savedata_backup_call(file_path) ==
    DeleteCall("delete_savedata_backup", file_path)

delete_file_call(file_path) == DeleteCall("delete_file", file_path)

DeleteReturn(r) ==
    /\ d_pc' = "idle"
    /\ d_result' = r
    /\ UNCHANGED <<host, d_op, d_path>>

\* fs::remove_file(path) in a call of the given name: the file is removed;
\* or the call fails, as it does on a directory, and nothing is removed.
remove_file(name, place, err) ==
    /\ d_pc = "remove"
    /\ d_op = name
    /\ \E failed \in BOOLEAN :
         IF failed \/ place \notin files
         THEN DeleteReturn(UnitErr(err)) /\ UNCHANGED files
         ELSE DeleteReturn(UnitOk) /\ files' = files \ {place}
    /\ UNCHANGED <<pmvars, bkvars, cgvars, arvars, mvvars, stvars>>

\* let normalized_path = backup_file_path.replace('/', "\\");
\* if !backup_path.exists() { return Err("备份文件不存在") }
delete_savedata_backup_exists ==
    /\ d_pc = "exists"
    /\ d_op = "delete_savedata_backup"
    /\ IF ~exists(files, Path_new(host, replace_slash(d_path)))
       THEN DeleteReturn(UnitErr("backup_not_found"))
       ELSE d_pc' = "remove" /\ UNCHANGED <<host, d_op, d_path, d_result>>
    /\ UNCHANGED files
    /\ UNCHANGED <<pmvars, bkvars, cgvars, arvars, mvvars, stvars>>

\* fs::remove_file(backup_path).map_err(..)?; Ok(())
delete_savedata_backup_remove ==
    remove_file("delete_savedata_backup",
                Path_new(host, replace_slash(d_path)), "remove_backup")

\* Mutant: a missing file is an error.
delete_file_exists_strict ==
    /\ d_pc = "exists"
    /\ d_op = "delete_file"
    /\ IF ~exists(files, Path_new(host, d_path))
       THEN DeleteReturn(UnitErr("remove_file"))
       ELSE d_pc' = "remove" /\ UNCHANGED <<host, d_op, d_path, d_result>>
    /\ UNCHANGED files
    /\ UNCHANGED <<pmvars, bkvars, cgvars, arvars, mvvars, stvars>>

\* if !path.exists() { return Ok(()) }
delete_file_exists ==
    /\ d_pc = "exists"
    /\ d_op = "delete_file"
    /\ IF ~exists(files, Path_new(host, d_path))
       THEN DeleteReturn(UnitOk)
       ELSE d_pc' = "remove" /\ UNCHANGED <<host, d_op, d_path, d_result>>
    /\ UNCHANGED files
    /\ UNCHANGED <<pmvars, bkvars, cgvars, arvars, mvvars, stvars>>

\* fs::remove_file(path).map_err(..)?; Ok(())
delete_file_remove ==
    remove_file("delete_file", Path_new(host, d_path), "remove_file")

\* ------------------------------------------- utils/fs.rs: move_backup_folder

\* What a backup folder may hold, and the folders there are: a folder is
\* None when nothing is at its path, else the set of what it holds.
FolderItems == {"x", "y"}
Folders == {None} \cup {Some(c) : c \in SUBSET FolderItems}

\* MoveResult { success, message }
MoveResult(success, message) == [success |-> success, message |-> message]
NoMoveResult == [success |-> FALSE, message |-> ""]

DiskAtCall == [old |-> old_dir, new |-> new_dir, parent |-> new_parent]

InitNoMoves ==
    /\ old_dir = None
    /\ new_dir = None
    /\ new_parent = FALSE
    /\ m_pc = "idle"
    /\ m_result = NoMoveResult
    /\ m_at_call = DiskAtCall

move_backup_folder_call ==
    /\ m_pc = "idle"
    /\ m_pc' = "check_old"
    /\ m_result' = NoMoveResult
    /\ m_at_call' = DiskAtCall
    /\ UNCHANGED <<old_dir, new_dir, new_parent>>
    /\ UNCHANGED <<pmvars, bkvars, cgvars, arvars, dlvars, stvars>>

MoveReturn(r) ==
    /\ m_pc' = "idle"
    /\ m_result' = r
    /\ UNCHANGED m_at_call

MoveGoto(label) ==
    /\ m_pc' = label
    /\ UNCHANGED <<m_result, m_at_call>>

\* Mutant: the parent of new_path is made before old_path is looked at.
check_old_exists_after_parent ==
    /\ m_pc = "check_old"
    /\ new_parent' = TRUE
    /\ IF ~IsSome(old_dir)
       THEN MoveReturn(MoveResult(TRUE, "nothing_to_move"))
       ELSE MoveGoto("parent")
    /\ UNCHANGED <<old_dir, new_dir>>
    /\ UNCHANGED <<pmvars, bkvars, cgvars, arvars, dlvars, stvars>>

\* if !old_backup_path.exists() { return Ok(MoveResult { success: true, .. }) }
check_old_exists ==
    /\ m_pc = "check_old"
    /\ IF ~IsSome(old_dir)
       THEN MoveReturn(MoveResult(TRUE, "nothing_to_move"))
       ELSE MoveGoto("parent")
    /\ UNCHANGED <<old_dir, new_dir, new_parent>>
    /\ UNCHANGED <<pmvars, bkvars, cgvars, arvars, dlvars, stvars>>

\* if !parent.exists() { if let Err(e) = fs::create_dir_all(parent) { .. } }
create_new_parent ==
    /\ m_pc = "parent"
    /\ IF new_parent
       THEN MoveGoto("check_new") /\ UNCHANGED new_parent
       ELSE \E failed \in BOOLEAN :
              IF failed
              THEN /\ MoveReturn(MoveResult(FALSE, "create_target_dir"))
                   /\ UNCHANGED new_parent
              ELSE MoveGoto("check_new") /\ new_parent' = TRUE
    /\ UNCHANGED <<old_dir, new_dir>>
    /\ UNCHANGED <<pmvars, bkvars, cgvars, arvars, dlvars, stvars>>

\* Mutant: a folder already at new_path does not stop the move.
check_new_exists_overwriting ==
    /\ m_pc = "check_new"
    /\ MoveGoto("rename")
    /\ UNCHANGED <<old_dir, new_dir, new_parent>>
    /\ UNCHANGED <<pmvars, bkvars, cgvars, arvars, dlvars, stvars>>

\* if new_backup_path.exists() { return Ok(MoveResult { success: false, .. }) }
check_new_exists ==
    /\ m_pc = "check_new"
    /\ IF IsSome(new_dir)
       THEN MoveReturn(MoveResult(FALSE, "destination_exists"))
       ELSE MoveGoto("rename")
    /\ UNCHANGED <<old_dir, new_dir, new_parent>>
    /\ UNCHANGED <<pmvars, bkvars, cgvars, arvars, dlvars, stvars>>

\* match fs::rename(old_backup_path, new_backup_path): the folder is at
\* new_path and no longer at old_path, or nothing has moved.
rename_old_to_new ==
    /\ m_pc = "rename"
    /\ \E failed \in BOOLEAN :
         IF failed
         THEN MoveGoto("copy") /\ UNCHANGED <<old_dir, new_dir>>
         ELSE /\ new_dir' = old_dir
              /\ old_dir' = None
              /\ MoveReturn(MoveResult(TRUE, "moved"))
    /\ UNCHANGED new_parent
    /\ UNCHANGED <<pmvars, bkvars, cgvars, arvars, dlvars, stvars>>

\* match copy_dir_all(old_backup_path, new_backup_path): everything is
\* copied; or create_dir_all(dst) fails and nothing is at new_path; or a
\* later step fails and new_path holds what was copied until then.
copy_dir_all ==
    /\ m_pc = "copy"
    /\ \E outcome \in {"ok", "failed", "failed_at_create"} :
         IF outcome = "ok"
         THEN new_dir' = old_dir /\ MoveGoto("remove")
         ELSE /\ IF outcome = "failed_at_create"
                 THEN UNCHANGED new_dir
                 ELSE \E copied \in SUBSET Unwrap(old_dir) :
                        new_dir' = Some(copied)
              /\ MoveReturn(MoveResult(FALSE, "move_failed"))
    /\ UNCHANGED <<old_dir, new_parent>>
    /\ UNCHANGED <<pmvars, bkvars, cgvars, arvars, dlvars, stvars>>

\* Mutant: the outcome of deleting the old folder is not looked at.
remove_old_dir_unchecked ==
    /\ m_pc = "remove"
    /\ \/ old_dir' = None
       \/ \E left \in SUBSET Unwrap(old_dir) : old_dir' = Some(left)
    /\ MoveReturn(MoveResult(TRUE, "moved_by_copy"))
    /\ UNCHANGED <<new_dir, new_parent>>
    /\ UNCHANGED <<pmvars, bkvars, cgvars, arvars, dlvars, stvars>>

\* match fs::remove_dir_all(old_backup_path): the old folder is gone; or the
\* call fails with the folder still there, holding what was not yet removed.
remove_old_dir ==
    /\ m_pc = "remove"
    /\ \/ /\ old_dir' = None
          /\ MoveReturn(MoveResult(TRUE, "moved_by_copy"))
       \/ /\ \E left \in SUBSET Unwrap(old_dir) : old_dir' = Some(left)
          /\ MoveReturn(MoveResult(FALSE, "copied_but_not_deleted"))
    /\ UNCHANGED <<new_dir, new_parent>>
    /\ UNCHANGED <<pmvars, bkvars, cgvars, arvars, dlvars, stvars>>

\* ---------------------------------------------- game_stats_repository.rs

\* The games that have statistics: game_id is the key of the table.
StatsGameIds == {1, 2}

\* The arguments callers pass to update_statistics: daily_stats lists of no,
\* one and two entries, one of them with the same date twice, and totals
\* that are the sum of some of them.
Dates == {"d1", "d2"}

DailyStatsInputs ==
    {<<>>,
     <<[date |-> "d1", playtime |-> 1]>>,
     <<[date |-> "d1", playtime |-> 1], [date |-> "d2", playtime |-> 12]>>,
     <<[date |-> "d1", playtime |-> 1], [date |-> "d1", playtime |-> 12]>>}

TotalTimes == {0, 13}

\* An i32 printed in decimal, and read back.
Digits == <<"0", "1", "2", "3", "4", "5", "6", "7", "8", "9">>

RECURSIVE to_decimal(_)
to_decimal(n) ==
    IF n < 10 THEN <<Digits[n + 1]>>
    ELSE Append(to_decimal(n \div 10), Digits[(n % 10) + 1])

IsDigit(tok) == \E i \in 1..10 : Digits[i] = tok
DigitValue(tok) == (CHOOSE i \in 1..10 : Digits[i] = tok) - 1

\* The entries of a list that are the first of their date.
FirstPerDate(ds) ==
    SelectSeq([i \in 1..Len(ds) |-> [at |-> i, entry |-> ds[i]]],
              LAMBDA e : \A j \in 1..(e.at - 1) : ds[j].date /= e.entry.date)

\* serde_json::to_string(&daily_stats): [{date,playtime},..] as tokens.
RECURSIVE json_entries(_)
json_entries(ds) ==
    IF ds = <<>> THEN <<>>
    ELSE <<"{", Head(ds).date>> \o to_decimal(Head(ds).playtime) \o <<"}">>
         \o (IF Tail(ds) = <<>> THEN <<>> ELSE <<",">> \o json_entries(Tail(ds)))

to_string(ds) == <<"[">> \o json_entries(ds) \o <<"]">>

\* parse_daily_stats: serde_json::from_str, an error on anything malformed.
Parsed(v) == [ok |-> TRUE, value |-> v]
ParseError == [ok |-> FALSE, value |-> <<>>]

RECURSIVE parse_number(_, _, _)
parse_number(toks, n, any) ==
    IF toks /= <<>> /\ IsDigit(Head(toks))
    THEN parse_number(Tail(toks), 10 * n + DigitValue(Head(toks)), TRUE)
    ELSE [ok |-> any, value |-> n, rest |-> toks]

RECURSIVE parse_entries(_)
parse_entries(toks) ==
    IF Len(toks) < 4 \/ toks[1] /= "{" \/ toks[2] \notin Dates
    THEN ParseError
    ELSE LET num == parse_number(SubSeq(toks, 3, Len(toks)), 0, FALSE)
             entry == [date |-> toks[2], playtime |-> num.value]
         IN IF ~num.ok \/ num.rest = <<>> \/ Head(num.rest) /= "}"
            THEN ParseError
            ELSE IF Tail(num.rest) = <<>> THEN Parsed(<<entry>>)
            ELSE IF Head(Tail(num.rest)) /= "," THEN ParseError
            ELSE LET more == parse_entries(Tail(Tail(num.rest)))
                 IN IF more.ok THEN Parsed(<<entry>> \o more.value)
                    ELSE ParseError

parse_daily_stats(json) ==
    IF Len(json) < 2 \/ json[1] /= "[" \/ json[Len(json)] /= "]"
    THEN ParseError
    ELSE IF Len(json) = 2 THEN Parsed(<<>>)
    ELSE parse_entries(SubSeq(json, 2, Len(json) - 1))

\* game_statistics::Model without its key.
StatsRow(total_time, session_count, last_played, daily_stats_json) ==
    [total_time |-> Some(total_time), session_count |-> Some(session_count),
     last_played |-> last_played, daily_stats |-> Some(daily_stats_json)]

NoArgs == [op |-> "none", game_id |-> 1, total_time |-> 0,
           session_count |-> 0, last_played |-> None, daily_stats_json |-> <<>>,
           today |-> "d1"]

InitNoStats ==
    /\ game_statistics = [g \in StatsGameIds |-> None]
    /\ s_pc = [t \in Tasks |-> "idle"]
    /\ s_args = [t \in Tasks |-> NoArgs]
    /\ s_existing = [t \in Tasks |-> FALSE]
    /\ s_result = [t \in Tasks |-> UnitNoResult]

StatsCall(t, args) ==
    /\ s_pc[t] = "idle"
    /\ s_pc' = [s_pc EXCEPT ![t] = "find"]
    /\ s_args' = [s_args EXCEPT ![t] = args]
    /\ s_result' = [s_result EXCEPT ![t] = UnitNoResult]
    /\ UNCHANGED <<game_statistics, s_existing>>
    /\ UNCHANGED <<pmvars, bkvars, cgvars, arvars, dlvars, mvvars>>

\* A call returns r; its arguments and locals are gone.
StatsReturn(t, r) ==
    /\ s_pc' = [s_pc EXCEPT ![t] = "idle"]
    /\ s_result' = [s_result EXCEPT ![t] = r]
    /\ s_args' = [s_args EXCEPT ![t] = NoArgs]
    /\ s_existing' = [s_existing EXCEPT ![t] = FALSE]

\* update_statistics(db, game_id, total_time, session_count, last_played,
\* daily_stats): the list is serialized before anything is asked of the
\* database.
update_statistics_call(t, game_id, total_time, session_count, last_played, daily_stats) ==
    StatsCall(t, [op |-> "update_statistics", game_id |-> game_id,
                  total_time |-> total_time, session_count |-> session_count,
                  last_played |-> last_played,
                  daily_stats_json |-> to_string(daily_stats),
                  today |-> NoArgs.today])

init_statistics_if_not_exists_call(t, game_id) ==
    StatsCall(t, [NoArgs EXCEPT !.op = "init_statistics_if_not_exists",
                                !.game_id = game_id])

\* let existing = GameStatistics::find_by_id(game_id).one(db).await?; all
\* that is looked at of it is existing.is_some().
find_existing(t) ==
    /\ s_pc[t] = "find"
    /\ s_args[t].op \in {"update_statistics", "init_statistics_if_not_exists"}
    /\ s_existing' = [s_existing EXCEPT ![t] =
           IsSome(game_statistics[s_args[t].game_id])]
    /\ s_pc' = [s_pc EXCEPT ![t] = "write"]
    /\ UNCHANGED <<game_statistics, s_args, s_result>>
    /\ UNCHANGED <<pmvars, bkvars, cgvars, arvars, dlvars, mvvars>>

\* Mutant: an entry whose date the list already has is not written.
written_row_first_per_date(args) ==
    LET ds == parse_daily_stats(args.daily_stats_json).value
    IN StatsRow(args.total_time, args.session_count, args.last_played,
                to_string([i \in 1..Len(FirstPerDate(ds)) |->
                             FirstPerDate(ds)[i].entry]))

\* What update_statistics writes: total_time, session_count, last_played and
\* daily_stats, all four replaced by the arguments.
written_row(args) ==
    StatsRow(args.total_time, args.session_count, args.last_played,
             args.daily_stats_json)

\* Mutant: the stored total is kept when it is more than the caller's.
update_row_never_decreasing(row, args) ==
    [written_row(args) EXCEPT !.total_time =
        IF Unwrap(row.total_time) > args.total_time THEN row.total_time
        ELSE Some(args.total_time)]

\* Mutant: the stored total is kept when a row is updated.
update_row_keeping_total(row, args) ==
    [written_row(args) EXCEPT !.total_time = row.total_time]

\* stats.total_time = Set(..); ..; stats.update(db).await?
update_row(row, args) == written_row(args)

\* Mutant: a row that exists is left as it is.
update_statistics_write_insert_only(t) ==
    /\ s_pc[t] = "write"
    /\ s_args[t].op = "update_statistics"
    /\ LET g == s_args[t].game_id
       IN IF s_existing[t] \/ IsSome(game_statistics[g])
          THEN UNCHANGED game_statistics /\ StatsReturn(t, UnitOk)
          ELSE /\ game_statistics' = [game_statistics EXCEPT ![g] =
                      Some(written_row(s_args[t]))]
               /\ StatsReturn(t, UnitOk)
    /\ UNCHANGED <<pmvars, bkvars, cgvars, arvars, dlvars, mvvars>>

\* if existing.is_some() { find the row again, set its four fields, update }
\* else { insert }: the insert fails when a row has appeared meanwhile.
update_statistics_write(t) ==
    /\ s_pc[t] = "write"
    /\ s_args[t].op = "update_statistics"
    /\ LET g == s_args[t].game_id
           row == game_statistics[g]
       IN IF s_existing[t]
          THEN IF IsSome(row)
               THEN /\ game_statistics' = [game_statistics EXCEPT ![g] =
                           Some(update_row(Unwrap(row), s_args[t]))]
                    /\ StatsReturn(t, UnitOk)
               ELSE /\ UNCHANGED game_statistics
                    /\ StatsReturn(t, UnitErr("RecordNotFound"))
          ELSE IF IsSome(row)
               THEN /\ UNCHANGED game_statistics
                    /\ StatsReturn(t, UnitErr("insert"))
               ELSE /\ game_statistics' = [game_statistics EXCEPT ![g] =
                           Some(written_row(s_args[t]))]
                    /\ StatsReturn(t, UnitOk)
    /\ UNCHANGED <<pmvars, bkvars, cgvars, arvars, dlvars, mvvars>>

\* if existing.is_none() { insert a zeroed row with daily_stats "[]" }
init_statistics_write(t) ==
    /\ s_pc[t] = "write"
    /\ s_args[t].op = "init_statistics_if_not_exists"
    /\ LET g == s_args[t].game_id
       IN IF s_existing[t]
          THEN UNCHANGED game_statistics /\ StatsReturn(t, UnitOk)
          ELSE IF IsSome(game_statistics[g])
               THEN /\ UNCHANGED game_statistics
                    /\ StatsReturn(t, UnitErr("insert"))
               ELSE /\ game_statistics' = [game_statistics EXCEPT ![g] =
                           Some(StatsRow(0, 0, None, <<"[", "]">>))]
                    /\ StatsReturn(t, UnitOk)
    /\ UNCHANGED <<pmvars, bkvars, cgvars, arvars, dlvars, mvvars>>

\* get_today_playtime(db, game_id, today)
get_today_playtime_call(t, game_id, today) ==
    StatsCall(t, [NoArgs EXCEPT !.op = "get_today_playtime",
                                !.game_id = game_id, !.today = today])

\* Ok(n) of a Result<i32, DbErr>.
PlaytimeOk(n) == [tag |-> "Ok", err |-> "", value |-> n]

\* for stat in daily_stats { if stat.date == today { return Ok(stat.playtime) } }
\* Ok(0)
RECURSIVE playtime_on(_, _)
playtime_on(daily_stats, today) ==
    IF daily_stats = <<>> THEN PlaytimeOk(0)
    ELSE IF Head(daily_stats).date = today
         THEN PlaytimeOk(Head(daily_stats).playtime)
         ELSE playtime_on(Tail(daily_stats), today)

\* Mutant: a game without a row, or without daily_stats, is an error.
today_playtime_of_existing(stats, today) ==
    IF IsSome(stats) /\ IsSome(Unwrap(stats).daily_stats)
    THEN LET daily_stats == parse_daily_stats(Unwrap(Unwrap(stats).daily_stats))
         IN IF daily_stats.ok THEN playtime_on(daily_stats.value, today)
            ELSE UnitErr("parse_daily_stats")
    ELSE UnitErr("RecordNotFound")

\* if let Some(stats) = stats { if let Some(daily_stats_json) = .. { parse?;
\* the first entry of today } } Ok(0)
today_playtime_of(stats, today) ==
    IF IsSome(stats) /\ IsSome(Unwrap(stats).daily_stats)
    THEN LET daily_stats == parse_daily_stats(Unwrap(Unwrap(stats).daily_stats))
         IN IF daily_stats.ok THEN playtime_on(daily_stats.value, today)
            ELSE UnitErr("parse_daily_stats")
    ELSE PlaytimeOk(0)

\* let stats = Self::get_statistics(db, game_id).await?; the rest looks at
\* what the query returned.
get_today_playtime(t) ==
    /\ s_pc[t] = "find"
    /\ s_args[t].op = "get_today_playtime"
    /\ StatsReturn(t, today_playtime_of(game_statistics[s_args[t].game_id],
                                        s_args[t].today))
    /\ UNCHANGED game_statistics
    /\ UNCHANGED <<pmvars, bkvars, cgvars, arvars, dlvars, mvvars>>

\* ------------------------------------------------- fs.rs: delete_game_covers

\* The games whose covers are deleted, and the file names a covers directory
\* can hold: two covers of game 1, a cover of game 12, and two names that
\* are not covers of game 1 though they hold its pattern or most of it.
CoverGameIds == {1, 12}

CoverNames ==
    {<<"cover", "_", "1", "_", "a">>,
     <<"cover", "_", "1", "_", "b">>,
     <<"cover", "_", "1", "2", "_", "a">>,
     <<"cover", "_", "1", ".", "a">>,
     <<"a", "cover", "_", "1", "_", "a">>}

\* str::starts_with
starts_with(str, pat) ==
    Len(str) >= Len(pat) /\ SubSeq(str, 1, Len(pat)) = pat

\* Mutant: the pattern ends with the game_id.
cover_pattern_without_separator(game_id) ==
    <<"cover", "_">> \o to_decimal(game_id)

\* format!("cover_{}_", game_id)
cover_pattern(game_id) == <<"cover", "_">> \o to_decimal(game_id) \o <<"_">>

InitNoCovers ==
    /\ covers = None
    /\ c_pc = "idle"
    /\ c_game_id = 1
    /\ c_todo = {}
    /\ c_result = UnitNoResult
    /\ c_before = None
    /\ c_failed = {}

\* delete_game_covers(game_id, covers_dir)
delete_game_covers_call(game_id) ==
    /\ c_pc = "idle"
    /\ c_pc' = "exists"
    /\ c_game_id' = game_id
    /\ c_result' = UnitNoResult
    /\ c_before' = covers
    /\ c_failed' = {}
    /\ UNCHANGED <<covers, c_todo>>
    /\ UNCHANGED <<pmvars, bkvars, arvars, dlvars, mvvars, stvars, gmvars>>

CoversReturn(r) ==
    /\ c_pc' = "idle"
    /\ c_result' = r
    /\ c_todo' = {}

\* if !dir_path.exists() { return Ok(()) }
covers_dir_exists ==
    /\ c_pc = "exists"
    /\ IF IsSome(covers)
       THEN c_pc' = "read_dir" /\ UNCHANGED <<c_result, c_todo>>
       ELSE CoversReturn(UnitOk)
    /\ UNCHANGED <<covers, c_game_id, c_before, c_failed>>
    /\ UNCHANGED <<pmvars, bkvars, arvars, dlvars, mvvars, stvars, gmvars>>

\* let entries = fs::read_dir(dir_path).map_err(..)?
read_covers_dir ==
    /\ c_pc = "read_dir"
    /\ \E failed \in BOOLEAN :
         IF failed \/ ~IsSome(covers)
         THEN CoversReturn(UnitErr("read_dir"))
         ELSE /\ c_pc' = "entries"
              /\ c_todo' = Unwrap(covers)
              /\ UNCHANGED c_result
    /\ UNCHANGED <<covers, c_game_id, c_before, c_failed>>
    /\ UNCHANGED <<pmvars, bkvars, arvars, dlvars, mvvars, stvars, gmvars>>

\* One turn of the loop: the next entry, in whatever order read_dir yields
\* them; an entry that cannot be read ends the call, a file of the pattern is
\* removed, and a removal that fails is printed and passed over. Ok(()) when
\* there is no entry left.
next_cover_entry ==
    /\ c_pc = "entries"
    /\ IF c_todo = {}
       THEN /\ CoversReturn(UnitOk)
            /\ UNCHANGED <<covers, c_failed>>
       ELSE \E name \in c_todo, entry_failed, remove_failed \in BOOLEAN :
              IF entry_failed
              THEN /\ CoversReturn(UnitErr("entry"))
                   /\ UNCHANGED <<covers, c_failed>>
              ELSE /\ c_todo' = c_todo \ {name}
                   /\ UNCHANGED <<c_pc, c_result>>
                   /\ IF ~starts_with(name, cover_pattern(c_game_id))
                      THEN UNCHANGED <<covers, c_failed>>
                      ELSE IF remove_failed
                      THEN /\ c_failed' = c_failed \cup {name}
                           /\ UNCHANGED covers
                      ELSE /\ covers' = Some(Unwrap(covers) \ {name})
                           /\ UNCHANGED c_failed
    /\ UNCHANGED <<c_game_id, c_before>>
    /\ UNCHANGED <<pmvars, bkvars, arvars, dlvars, mvvars, stvars, gmvars>>

\* ------------------------------------------------------ games_repository.rs

\* The rows of games, and the tables: games, and the three tables of related
\* rows, keyed by the game's id.
GameRowIds == {1, 2}

TableNames == {"games", "bgm_data", "vndb_data", "other_data"}

RelatedTables == <<"bgm_data", "vndb_data", "other_data">>

NoTables == [tb \in TableNames |-> [id \in GameRowIds |-> None]]

\* What callers pass: the game's data and each related input, or none.
GameArgs(game_id, game, bgm, vndb, other) ==
    [game_id |-> game_id,
     data |-> [games |-> game, bgm_data |-> bgm, vndb_data |-> vndb,
               other_data |-> other]]

InsertInputs ==
    {GameArgs(0, Some("x"), None, None, None),
     GameArgs(0, Some("x"), Some("x"), Some("x"), Some("x")),
     GameArgs(0, Some("y"), Some("y"), None, Some("y"))}

UpdateInputs ==
    {GameArgs(id, Some("y"), Some("y"), Some("y"), Some("y")) : id \in GameRowIds}
    \cup {GameArgs(id, None, Some("y"), None, Some("x")) : id \in GameRowIds}
    \cup {GameArgs(id, Some("x"), None, Some("x"), None) : id \in GameRowIds}

NoCall == [op |-> "none", game_id |-> 0, data |-> GameArgs(0, None, None, None, None).data,
           before |-> NoTables, wrote |-> FALSE]

\* Ok(game_id) of insert_with_related.
IdOk(id) == [tag |-> "Ok", err |-> "", value |-> id]

InitNoGames ==
    /\ tables = NoTables
    /\ txn = None
    /\ g_pc = "idle"
    /\ g_call = NoCall
    /\ g_result = UnitNoResult

GamesCall(operation, args) ==
    /\ g_pc = "idle"
    /\ g_pc' = "begin"
    /\ g_call' = [op |-> operation, game_id |-> args.game_id, data |-> args.data,
                  before |-> tables, wrote |-> FALSE]
    /\ g_result' = UnitNoResult
    /\ UNCHANGED <<tables, txn>>
    /\ UNCHANGED <<pmvars, bkvars, arvars, dlvars, mvvars, stvars, cvvars>>

insert_with_related_call(args) == GamesCall("insert_with_related", args)

update_with_related_call(args) == GamesCall("update_with_related", args)

\* Mutant: what the transaction wrote stays when it is dropped.
drop_txn_keeping_writes(committed, work) == work

\* A `?` leaves the function with the transaction open: dropping it rolls it
\* back.
drop_txn(committed, work) == committed

\* The call returns the error e.
GamesFail(e) ==
    /\ g_pc' = "idle"
    /\ g_result' = UnitErr(e)
    /\ tables' = IF IsSome(txn) THEN drop_txn(tables, Unwrap(txn)) ELSE tables
    /\ txn' = None
    /\ UNCHANGED g_call

\* let txn = db.begin().await?
begin ==
    /\ g_pc = "begin"
    /\ \E failed \in BOOLEAN :
         IF failed THEN GamesFail("begin")
         ELSE /\ txn' = Some(tables)
              /\ g_pc' = "games"
              /\ UNCHANGED <<tables, g_call, g_result>>
    /\ UNCHANGED <<pmvars, bkvars, arvars, dlvars, mvvars, stvars, cvvars>>

\* The id the games table gives a new row.
NextId(work) ==
    IF \A id \in GameRowIds : IsSome(work.games[id]) THEN 0
    ELSE CHOOSE id \in GameRowIds :
           /\ ~IsSome(work.games[id])
           /\ \A j \in GameRowIds : j < id => IsSome(work.games[j])

\* A statement of the transaction has written v to the row id of table tb.
Written(tb, id, v, next) ==
    /\ txn' = Some([Unwrap(txn) EXCEPT ![tb][id] = Some(v)])
    /\ g_call' = [g_call EXCEPT !.game_id = id, !.wrote = TRUE]
    /\ g_pc' = next
    /\ UNCHANGED <<tables, g_result>>

\* insert_with_related: game_active.insert(&txn).await?, the row's id being
\* the new game_id. update_with_related: if let Some(g) = updates.game {
\* game_active.update(&txn).await? }, an error when there is no such row.
write_game ==
    /\ g_pc = "games"
    /\ \E failed \in BOOLEAN :
         LET work == Unwrap(txn)
             game == g_call.data.games
         IN IF g_call.op = "insert_with_related"
            THEN IF failed \/ NextId(work) = 0 THEN GamesFail("insert")
                 ELSE Written("games", NextId(work), Unwrap(game), "bgm_data")
            ELSE IF ~IsSome(game)
                 THEN /\ g_pc' = "bgm_data"
                      /\ UNCHANGED <<tables, txn, g_call, g_result>>
                 ELSE IF failed \/ ~IsSome(work.games[g_call.game_id])
                      THEN GamesFail("update")
                      ELSE Written("games", g_call.game_id, Unwrap(game),
                                   "bgm_data")
    /\ UNCHANGED <<pmvars, bkvars, arvars, dlvars, mvvars, stvars, cvvars>>

\* insert_bgm_data, insert_vndb_data, insert_other_data: if let Some(input) =
\* data { insert }, which fails on a row of that game_id. upsert_bgm_data,
\* upsert_vndb_data, upsert_other_data: if let Some(input) = data { update
\* the row found, or insert }.
write_related(i) ==
    /\ g_pc = RelatedTables[i]
    /\ \E failed \in BOOLEAN :
         LET tb == RelatedTables[i]
             next == IF i < Len(RelatedTables) THEN RelatedTables[i + 1]
                     ELSE "commit"
             input == g_call.data[tb]
             existing == Unwrap(txn)[tb][g_call.game_id]
         IN IF ~IsSome(input)
            THEN /\ g_pc' = next
                 /\ UNCHANGED <<tables, txn, g_call, g_result>>
            ELSE IF failed THEN GamesFail(tb)
            ELSE IF g_call.op = "insert_with_related" /\ IsSome(existing)
                 THEN GamesFail(tb)
                 ELSE Written(tb, g_call.game_id, Unwrap(input), next)
    /\ UNCHANGED <<pmvars, bkvars, arvars, dlvars, mvvars, stvars, cvvars>>

\* txn.commit().await?; Ok(game_id) or Ok(())
commit ==
    /\ g_pc = "commit"
    /\ \E failed \in BOOLEAN :
         IF failed THEN GamesFail("commit")
         ELSE /\ tables' = Unwrap(txn)
              /\ txn' = None
              /\ g_pc' = "idle"
              /\ g_result' = IF g_call.op = "insert_with_related"
                             THEN IdOk(g_call.game_id) ELSE UnitOk
              /\ UNCHANGED g_call
    /\ UNCHANGED <<pmvars, bkvars, arvars, dlvars, mvvars, stvars, cvvars>>

\* ------------------------------------------------------- specifications

\* Nothing is archived, deleted, moved or counted.
InitRest ==
    /\ InitNoArchive
    /\ InitNoDeletes
    /\ InitNoMoves
    /\ InitNoStats
    /\ InitNoCovers
    /\ InitNoGames

InitTasks ==
    /\ pc = [t \in Tasks |-> "idle"]
    /\ op = [t \in Tasks |-> "none"]
    /\ kind = [t \in Tasks |-> "db"]
    /\ custom_path = [t \in Tasks |-> None]
    /\ path = [t \in Tasks |-> NoPath]
    /\ result = [t \in Tasks |-> NoResult]
    /\ seen = [t \in Tasks |-> {}]
    /\ row_read = [t \in Tasks |-> None]
    /\ fs_read = [t \in Tasks |-> None]

InitPlatform ==
    /\ resource_dir_ok \in BOOLEAN
    /\ app_data_dir_ok \in BOOLEAN
    /\ portable_data_dir \in BOOLEAN
    /\ portable_db_file \in BOOLEAN
    /\ portable_db_file => portable_data_dir

\* PathManager::new() in a fresh installation: an empty cache, a free mutex,
\* no settings row; the platform and the marker are whatever they are.
Init ==
    /\ cache = PathCache_default
    /\ lock = NoTask
    /\ user = None
    /\ writes_left = MaxWrites
    /\ detected = None
    /\ InitPlatform
    /\ InitTasks
    /\ InitNoBackups
    /\ InitRest

\* The tasks call the path manager concurrently while the settings row is
\* written.
Next ==
    \/ \E t \in Tasks : get_db_backup_path_call(t)
    \/ \E t \in Tasks : get_savedata_backup_path_call(t)
    \/ \E t \in Tasks : check_cache(t)
    \/ \E t \in Tasks : query_settings(t)
    \/ \E t \in Tasks : resolve_path(t)
    \/ \E t \in Tasks : lock_for_store(t)
    \/ \E t \in Tasks : store_cache(t)
    \/ \E t \in Tasks : clear_cache_call(t)
    \/ \E t \in Tasks : clear_cache(t)
    \/ \E p \in WriteInputs : set_save_root_path(p)
    \/ clear_save_root_path
    \/ \E sp \in {None} \cup {Some(p) : p \in WriteInputs} : update_settings(sp)

Spec == Init /\ [][Next]_vars

\* The caller of the settings writers invalidates when it has written: the
\* cache is cleared after the last write of the settings row.
NextInvalidate ==
    \/ \E t \in Tasks : get_db_backup_path_call(t)
    \/ \E t \in Tasks : get_savedata_backup_path_call(t)
    \/ \E t \in Tasks : check_cache(t)
    \/ \E t \in Tasks : query_settings(t)
    \/ \E t \in Tasks : resolve_path(t)
    \/ \E t \in Tasks : lock_for_store(t)
    \/ \E t \in Tasks : store_cache(t)
    \/ \E t \in Tasks : writes_left = 0 /\ clear_cache_call(t)
    \/ \E t \in Tasks : clear_cache(t)
    \/ \E p \in WriteInputs : set_save_root_path(p)
    \/ clear_save_root_path
    \/ \E sp \in {None} \cup {Some(p) : p \in WriteInputs} : update_settings(sp)

SpecInvalidate == Init /\ [][NextInvalidate]_vars

\* PathManager::new() over a settings row left by earlier runs: any row whose
\* overrides are strings of at most MaxStrLen characters, or no row.
Overrides == {None} \cup {Some(x) : x \in StringsUpTo(MaxStrLen)}

InitResolve ==
    /\ cache = PathCache_default
    /\ lock = NoTask
    /\ user \in {None} \cup
                {Some(r) : r \in [db_backup_path : Overrides,
                                  save_root_path : Overrides]}
    /\ writes_left = MaxResolveWrites
    /\ detected = None
    /\ InitPlatform
    /\ InitTasks
    /\ InitNoBackups
    /\ InitRest

\* One task resolves paths over that row while the portable marker changes
\* and the row is written.
NextResolve ==
    \/ get_db_backup_path_call("t1")
    \/ get_savedata_backup_path_call("t1")
    \/ check_cache("t1")
    \/ query_settings("t1")
    \/ resolve_path("t1")
    \/ lock_for_store("t1")
    \/ store_cache("t1")
    \/ clear_cache_call("t1")
    \/ clear_cache("t1")
    \/ get_base_data_dir_call("t1")
    \/ get_base_data_dir_return("t1")
    \/ get_db_path_call("t1")
    \/ get_db_path_return("t1")
    \/ \E p \in WriteInputs : set_save_root_path(p)
    \/ clear_save_root_path
    \/ \E sp \in {None} \cup {Some(p) : p \in WriteInputs} : update_settings(sp)
    \/ create_portable_data_dir
    \/ create_portable_db_file
    \/ remove_portable_db_file
    \/ remove_portable_data_dir

SpecResolve == InitResolve /\ [][NextResolve]_vars

\* An idle path manager over an empty backup disk; each source path is
\* absent, a file or a directory.
InitBackup ==
    /\ cache = PathCache_default
    /\ lock = NoTask
    /\ user = None
    /\ writes_left = 0
    /\ detected = None
    /\ resource_dir_ok = TRUE
    /\ app_data_dir_ok = TRUE
    /\ portable_data_dir = FALSE
    /\ portable_db_file = FALSE
    /\ InitTasks
    /\ src_kind \in [Sources -> {"absent", "file", "dir"}]
    /\ root_exists = FALSE
    /\ game_dirs = {}
    /\ archives = [n \in ArchiveNames |-> NoArchive]
    /\ clock = 0
    /\ b_pc = [t \in Tasks |-> "idle"]
    /\ b_game = [t \in Tasks |-> 1]
    /\ b_source = [t \in Tasks |-> "s1"]
    /\ b_file = [t \in Tasks |-> None]
    /\ b_result = [t \in Tasks |-> BNoResult]
    /\ InitRest

\* The tasks create backups concurrently while time passes.
NextBackup ==
    \/ \E t \in Tasks, g \in GameIds, s \in Sources :
         create_savedata_backup_call(t, g, s)
    \/ \E t \in Tasks : check_source_exists(t)
    \/ \E t \in Tasks : check_source_is_dir(t)
    \/ \E t \in Tasks : create_game_backup_dir(t)
    \/ \E t \in Tasks : make_backup_file_path(t)
    \/ \E t \in Tasks : create_archive_file(t)
    \/ \E t \in Tasks : write_archive(t)
    \/ \E t \in Tasks : archive_metadata(t)
    \/ tick

SpecBackup == InitBackup /\ [][NextBackup]_vars

\* The backups are created one after the other: a call begins only when no
\* other call is under way.
NextBackupSeq ==
    \/ \E t \in Tasks, g \in GameIds, src \in Sources :
         /\ \A u \in Tasks : b_pc[u] = "idle"
         /\ create_savedata_backup_call(t, g, src)
    \/ \E t \in Tasks : check_source_exists(t)
    \/ \E t \in Tasks : check_source_is_dir(t)
    \/ \E t \in Tasks : create_game_backup_dir(t)
    \/ \E t \in Tasks : make_backup_file_path(t)
    \/ \E t \in Tasks : create_archive_file(t)
    \/ \E t \in Tasks : write_archive(t)
    \/ \E t \in Tasks : archive_metadata(t)
    \/ tick

SpecBackupSeq == InitBackup /\ [][NextBackupSeq]_vars

\* An idle path manager of a standard installation that makes no backups.
InitIdle ==
    /\ cache = PathCache_default
    /\ lock = NoTask
    /\ user = None
    /\ writes_left = 0
    /\ detected = None
    /\ resource_dir_ok = TRUE
    /\ app_data_dir_ok = TRUE
    /\ portable_data_dir = FALSE
    /\ portable_db_file = FALSE
    /\ InitTasks
    /\ InitNoBackups

\* create_7z_archive over any source tree, listed in either order; no
\* archive is at the destination yet.
InitArchive ==
    /\ InitIdle
    /\ InitNoCovers
    /\ InitNoGames
    /\ tree \in Trees
    /\ listing \in {"asc", "desc"}
    /\ a_pc = "idle"
    /\ a_file = NoFile
    /\ sz = <<>>
    /\ a_result = BNoResult
    /\ InitNoDeletes
    /\ InitNoMoves
    /\ InitNoStats

NextArchive ==
    \/ create_7z_archive_call
    \/ archive_file_create
    \/ add_files
    \/ sz_finish
    \/ archive_len

SpecArchive == InitArchive /\ [][NextArchive]_vars

\* The two delete commands on either host, over any disk of it.
InitDelete ==
    /\ InitIdle
    /\ InitNoCovers
    /\ InitNoGames
    /\ host \in Hosts
    /\ files \in Disks(host)
    /\ d_pc = "idle"
    /\ d_op = "none"
    /\ d_path = <<>>
    /\ d_result = UnitNoResult
    /\ InitNoArchive
    /\ InitNoMoves
    /\ InitNoStats

NextDelete ==
    \/ \E str \in PathStrings : delete_savedata_backup_call(str)
    \/ delete_savedata_backup_exists
    \/ delete_savedata_backup_remove
    \/ \E str \in PathStrings : delete_file_call(str)
    \/ delete_file_exists
    \/ delete_file_remove

SpecDelete == InitDelete /\ [][NextDelete]_vars

\* move_backup_folder over any two folders; the parent of new_path exists
\* when something is at new_path.
InitMove ==
    /\ InitIdle
    /\ InitNoCovers
    /\ InitNoGames
    /\ old_dir \in Folders
    /\ new_dir \in Folders
    /\ new_parent \in BOOLEAN
    /\ IsSome(new_dir) => new_parent
    /\ m_pc = "idle"
    /\ m_result = NoMoveResult
    /\ m_at_call = DiskAtCall
    /\ InitNoArchive
    /\ InitNoDeletes
    /\ InitNoStats

NextMove ==
    \/ move_backup_folder_call
    \/ check_old_exists
    \/ create_new_parent
    \/ check_new_exists
    \/ rename_old_to_new
    \/ copy_dir_all
    \/ remove_old_dir

SpecMove == InitMove /\ [][NextMove]_vars

\* The tasks update and initialise statistics concurrently, over an empty
\* table.
InitStats ==
    /\ InitIdle
    /\ InitNoCovers
    /\ InitNoGames
    /\ InitNoArchive
    /\ InitNoDeletes
    /\ InitNoMoves
    /\ InitNoStats

NextStats ==
    \/ \E t \in Tasks, g \in StatsGameIds, total_time \in TotalTimes,
          daily_stats \in DailyStatsInputs :
         update_statistics_call(t, g, total_time, 1, Some(1), daily_stats)
    \/ \E t \in Tasks, g \in StatsGameIds : init_statistics_if_not_exists_call(t, g)
    \/ \E t \in Tasks : find_existing(t)
    \/ \E t \in Tasks : update_statistics_write(t)
    \/ \E t \in Tasks : init_statistics_write(t)

SpecStats == InitStats /\ [][NextStats]_vars

\* The tasks only update statistics.
NextUpdate ==
    \/ \E t \in Tasks, g \in StatsGameIds, total_time \in TotalTimes,
          daily_stats \in DailyStatsInputs :
         update_statistics_call(t, g, total_time, 1, Some(1), daily_stats)
    \/ \E t \in Tasks : find_existing(t)
    \/ \E t \in Tasks : update_statistics_write(t)

SpecUpdate == InitStats /\ [][NextUpdate]_vars

\* The tasks only initialise statistics, as when games are launched.
NextLaunch ==
    \/ \E t \in Tasks, g \in StatsGameIds : init_statistics_if_not_exists_call(t, g)
    \/ \E t \in Tasks : find_existing(t)
    \/ \E t \in Tasks : init_statistics_write(t)

SpecLaunch == InitStats /\ [][NextLaunch]_vars

\* The rows a table can hold when it is read: none, a row without
\* daily_stats, a row whose daily_stats is not a list of entries, and the
\* rows update_statistics and init_statistics_if_not_exists write.
StoredRows ==
    {None,
     Some([StatsRow(0, 0, None, <<>>) EXCEPT !.daily_stats = None]),
     Some(StatsRow(0, 0, None, <<"[", "{", "d1", "}", "]">>)),
     Some(StatsRow(0, 0, None, <<"[", "]">>))}
    \cup {Some(StatsRow(13, 1, Some(1), to_string(ds))) : ds \in DailyStatsInputs}

InitToday ==
    /\ InitIdle
    /\ InitNoCovers
    /\ InitNoGames
    /\ InitNoArchive
    /\ InitNoDeletes
    /\ InitNoMoves
    /\ game_statistics \in [StatsGameIds -> StoredRows]
    /\ s_pc = [t \in Tasks |-> "idle"]
    /\ s_args = [t \in Tasks |-> NoArgs]
    /\ s_existing = [t \in Tasks |-> FALSE]
    /\ s_result = [t \in Tasks |-> UnitNoResult]

\* The tasks ask for the playtime of a day.
NextToday ==
    \/ \E t \in Tasks, g \in StatsGameIds, today \in Dates :
         get_today_playtime_call(t, g, today)
    \/ \E t \in Tasks : get_today_playtime(t)

SpecToday == InitToday /\ [][NextToday]_vars

\* delete_game_covers is called over a covers directory that is missing or
\* holds any of the file names.
InitCovers ==
    /\ InitIdle
    /\ InitNoArchive
    /\ InitNoDeletes
    /\ InitNoMoves
    /\ InitNoStats
    /\ InitNoGames
    /\ covers \in {None} \cup {Some(names) : names \in SUBSET CoverNames}
    /\ c_pc = "idle"
    /\ c_game_id = 1
    /\ c_todo = {}
    /\ c_result = UnitNoResult
    /\ c_before = None
    /\ c_failed = {}

NextCovers ==
    \/ \E game_id \in CoverGameIds : delete_game_covers_call(game_id)
    \/ covers_dir_exists
    \/ read_covers_dir
    \/ next_cover_entry

SpecCovers == InitCovers /\ [][NextCovers]_vars

\* Games are inserted and updated with their related rows, one call at a
\* time, over empty tables.
InitGames ==
    /\ InitIdle
    /\ InitNoArchive
    /\ InitNoDeletes
    /\ InitNoMoves
    /\ InitNoStats
    /\ InitNoCovers
    /\ InitNoGames

NextGames ==
    \/ \E args \in InsertInputs : insert_with_related_call(args)
    \/ \E args \in UpdateInputs : update_with_related_call(args)
    \/ begin
    \/ write_game
    \/ \E i \in 1..Len(RelatedTables) : write_related(i)
    \/ commit

SpecGames == InitGames /\ [][NextGames]_vars

\* ------------------------------------------------------------------ claims

Kinds == {"db", "save"}

\* A call of task t returns in this step.
Returns(t) == pc[t] /= "idle" /\ pc'[t] = "idle"

\* A string that is empty or holds whitespace only.
Blank(str) == \A i \in 1..Len(str) : str[i] = " "

\* The override of a kind in a settings row as a query returned it.
OverrideRead(row, k) ==
    IF ~IsSome(row) THEN None
    ELSE IF k = "db" THEN Unwrap(row).db_backup_path
    ELSE Unwrap(row).save_root_path

\* Whether that override counts: present and not blank.
Given(o) == IsSome(o) /\ ~Blank(Unwrap(o))

\* The base data directory for a marker as read: <resource>/resources when
\* the resource directory resolves and both resources/data and the database
\* file exist, the application-data directory otherwise.
BaseFor(dir, file) ==
    IF resource_dir_ok /\ dir /\ file
    THEN [root |-> "resource_dir", str |-> <<>>, comps |-> <<"resources">>]
    ELSE [root |-> "app_data_dir", str |-> <<>>, comps |-> <<>>]

\* Whether that base can be had at all.
BaseResolves(dir, file) == (resource_dir_ok /\ dir /\ file) \/ app_data_dir_ok

Under(p, names) == [p EXCEPT !.comps = @ \o names]

\* C1: once the cache entry of a kind is populated, the entry does not change
\* and every get of that kind returns it, until clear_cache runs; for every
\* interleaving of gets and settings writes.
C1_EntryStableUntilClear ==
    [][ (\E t \in Tasks : pc[t] = "clear" /\ pc'[t] = "idle")
        \/ \A k \in Kinds :
             IsSome(Entry(cache, k)) =>
               /\ Entry(cache', k) = Entry(cache, k)
               /\ \A t \in Tasks :
                    (Returns(t) /\ op[t] = "get" /\ kind[t] = k
                       /\ result'[t].tag = "Ok")
                    => result'[t].path = Unwrap(Entry(cache, k)) ]_vars

\* C2 as stated: once Portable mode has been detected, get_base_data_dir and
\* get_db_path keep returning the detected base (and the database path under
\* it) whatever happens to the marker, until the cache is cleared.
C2_BaseDirStableOnceDetected ==
    [][ \A t \in Tasks :
          (Returns(t) /\ IsSome(detected)
             /\ pc[t] \in {"get_base_data_dir", "get_db_path"})
          => result'[t] =
               IF pc[t] = "get_base_data_dir" THEN Ok(Unwrap(detected))
               ELSE Ok(Under(Unwrap(detected), <<"data", "reina_manager.db">>))
      ]_vars

\* C2 as amended: get_base_data_dir and get_db_path evaluate the marker at
\* each call and return the base of the mode found then; what a change of
\* the marker leaves as it is are the entries of the path cache.
C2_BaseDirFollowsMarker ==
    [][ /\ \A t \in Tasks :
             (Returns(t) /\ pc[t] \in {"get_base_data_dir", "get_db_path"})
             => result'[t] =
                  IF ~BaseResolves(portable_data_dir, portable_db_file)
                  THEN Err("app_data_dir")
                  ELSE IF pc[t] = "get_base_data_dir"
                  THEN Ok(BaseFor(portable_data_dir, portable_db_file))
                  ELSE Ok(Under(BaseFor(portable_data_dir, portable_db_file),
                                <<"data", "reina_manager.db">>))
        /\ (marker' /= marker => cache' = cache) ]_vars

\* Portable was detected and a backup path cached under it, the marker is
\* gone, and get_base_data_dir has returned the application-data directory.
C2_Witness ==
    \E t \in Tasks :
      /\ pc[t] = "idle" /\ op[t] = "get_base_data_dir"
      /\ result[t] = Ok([root |-> "app_data_dir", str |-> <<>>, comps |-> <<>>])
      /\ IsSome(detected)
      /\ ~portable_data_dir
      /\ cache.db_backup_path =
           Some([root |-> "resource_dir", str |-> <<>>,
                 comps |-> <<"resources", "data", "backups">>])

\* C3: the step of clear_cache leaves both cache entries empty, whatever
\* they held.
C3_ClearEmptiesBoth ==
    [][ \A t \in Tasks :
          (pc[t] = "clear" /\ pc'[t] = "idle")
          => (cache'.db_backup_path = <<>> /\ cache'.savedata_backup_path = <<>>)
      ]_vars

\* clear_cache has just run on a cache that held both entries.
C3_Witness ==
    \E t \in Tasks :
      /\ pc[t] = "idle" /\ op[t] = "clear_cache"
      /\ seen[t] = {"db", "save"}
      /\ cache.db_backup_path = <<>> /\ cache.savedata_backup_path = <<>>

\* C4: a task holds the mutex only in the blocks that read or write the
\* cache, never while its settings query is pending or its path is being
\* resolved.
C4_LockOnlyAroundCache ==
    \A t \in Tasks :
      /\ pc[t] \in {"query", "resolve", "commit"} => lock /= t
      /\ lock = t => pc[t] \in {"check", "store", "clear"}

\* One task's query is pending while the other holds the mutex in
\* clear_cache.
C4_Witness ==
    \E t, u \in Tasks :
      /\ t /= u
      /\ pc[t] = "query"
      /\ pc[u] = "clear" /\ lock = u

\* C5: a get that finds its kind cached returns the entry in that step,
\* without a settings query or a mode check, and leaves the cache as it is.
C5_HitReturnsAtOnce ==
    [][ \A t \in Tasks :
          (pc[t] = "check" /\ pc'[t] /= "check" /\ IsSome(Entry(cache, kind[t])))
          => /\ pc'[t] = "idle"
             /\ result'[t] = Ok(Unwrap(Entry(cache, kind[t])))
             /\ cache' = cache
             /\ row_read'[t] = <<>> /\ fs_read'[t] = <<>> ]_vars

\* A hit returned the Portable default although the marker is gone and the
\* settings row now holds an override for that kind.
C5_Witness ==
    \E t \in Tasks :
      /\ pc[t] = "idle" /\ op[t] = "get" /\ kind[t] \in seen[t]
      /\ result[t].tag = "Ok" /\ result[t].path.root = "resource_dir"
      /\ Entry(cache, kind[t]) = Some(result[t].path)
      /\ ~portable_data_dir
      /\ Given(OverrideRead(user, kind[t]))

\* The default of a kind under a base directory.
DefaultUnder(base, k) ==
    IF k = "db" THEN Under(base, <<"data", "backups">>)
    ELSE Under(base, <<"backups">>)

\* A get of kind k by task t that missed returns in this step with a path.
MissReturns(t, k) ==
    pc[t] = "store" /\ pc'[t] = "idle" /\ op[t] = "get" /\ kind[t] = k

\* C6 as stated: with a non-blank save root override in the row read, the
\* savedata getter returns on a miss the override exactly as stored.
C6_SaveOverrideAsStored ==
    [][ \A t \in Tasks :
          LET o == OverrideRead(Unwrap(row_read[t]), "save")
          IN  (MissReturns(t, "save") /\ Given(o))
              => result'[t] = Ok([root |-> "custom", str |-> Unwrap(o),
                                  comps |-> <<>>]) ]_vars

\* C6 as amended: with a non-blank save root override in the row read, the
\* savedata getter returns on a miss the override as stored joined with
\* `backups`.
C6_SaveOverrideJoinsBackups ==
    [][ \A t \in Tasks :
          LET o == OverrideRead(Unwrap(row_read[t]), "save")
          IN  (MissReturns(t, "save") /\ Given(o))
              => result'[t] = Ok([root |-> "custom", str |-> Unwrap(o),
                                  comps |-> <<"backups">>]) ]_vars

\* A savedata get missed over the override " a" and returned " a"/backups.
C6_Witness ==
    \E t \in Tasks :
      /\ pc[t] = "idle" /\ op[t] = "get" /\ kind[t] = "save"
      /\ "save" \notin seen[t]
      /\ result[t] = Ok([root |-> "custom", str |-> <<" ", "a">>,
                         comps |-> <<"backups">>])

\* C7: the savedata backup directory a miss returns is {base}/backups with
\* no override and {override_root}/backups with one, base being the base
\* data directory of the mode found when the default was resolved.
C7_SavedataDirLayout ==
    [][ \A t \in Tasks :
          LET o == OverrideRead(Unwrap(row_read[t]), "save")
          IN  MissReturns(t, "save")
              => result'[t] =
                   Ok(IF Given(o)
                      THEN Under([root |-> "custom", str |-> Unwrap(o),
                                  comps |-> <<>>], <<"backups">>)
                      ELSE Under(BaseFor(Unwrap(fs_read[t]).dir,
                                         Unwrap(fs_read[t]).file),
                                 <<"backups">>)) ]_vars

\* A savedata get missed with no override in Portable mode and returned
\* <resource>/resources/backups.
C7_Witness ==
    \E t \in Tasks :
      /\ pc[t] = "idle" /\ op[t] = "get" /\ kind[t] = "save"
      /\ "save" \notin seen[t]
      /\ result[t] = Ok([root |-> "resource_dir", str |-> <<>>,
                         comps |-> <<"resources", "backups">>])

\* C8: for both kinds, a miss over an override that is absent, empty or
\* whitespace-only resolves the default of the mode: it returns that default,
\* or fails because no base directory resolves, and no path is ever built
\* from a blank string.
C8_BlankOverrideIsNone ==
    [][ \A t \in Tasks :
          /\ (pc[t] = "resolve" /\ pc'[t] /= "resolve"
                /\ ~Given(OverrideRead(Unwrap(row_read[t]), kind[t])))
             => IF BaseResolves(portable_data_dir, portable_db_file)
                THEN /\ pc'[t] = "commit"
                     /\ path'[t] = DefaultUnder(BaseFor(portable_data_dir,
                                                        portable_db_file),
                                                kind[t])
                ELSE Returns(t) /\ result'[t] = Err("app_data_dir")
          /\ (pc[t] = "store" /\ pc'[t] = "idle" /\ op[t] = "get"
                /\ ~Given(OverrideRead(Unwrap(row_read[t]), kind[t])))
             => result'[t] = Ok(DefaultUnder(BaseFor(Unwrap(fs_read[t]).dir,
                                                     Unwrap(fs_read[t]).file),
                                             kind[t]))
          /\ (result'[t].path.root = "custom" => ~Blank(result'[t].path.str))
      ]_vars

\* No settings write has happened, the row holds a whitespace-only save root
\* and an empty db-backup override, and a savedata get that missed returned
\* a default.
C8_Witness ==
    \E t \in Tasks :
      /\ writes_left = MaxResolveWrites
      /\ user = Some([db_backup_path |-> Some(<<>>),
                      save_root_path |-> Some(<<" ">>)])
      /\ pc[t] = "idle" /\ op[t] = "get" /\ kind[t] = "save"
      /\ "save" \notin seen[t]
      /\ result[t].tag = "Ok"
      /\ result[t].path.root /= "custom"

\* C9: on a miss the db-backup getter returns a non-blank override as
\* stored, and with no override base/data/backups, base being
\* <resource>/resources iff resources/data and the database file both exist
\* and the resource directory resolves, the application-data directory
\* otherwise.
C9_DbBackupPathResolution ==
    [][ \A t \in Tasks :
          LET o == OverrideRead(Unwrap(row_read[t]), "db")
          IN  MissReturns(t, "db")
              => result'[t] =
                   Ok(IF Given(o)
                      THEN [root |-> "custom", str |-> Unwrap(o), comps |-> <<>>]
                      ELSE Under(BaseFor(Unwrap(fs_read[t]).dir,
                                         Unwrap(fs_read[t]).file),
                                 <<"data", "backups">>)) ]_vars

\* A db-backup get missed with no override while the marker was present but
\* the resource directory did not resolve, and returned
\* <app data>/data/backups.
C9_Witness ==
    \E t \in Tasks :
      /\ writes_left = MaxResolveWrites
      /\ ~Given(OverrideRead(user, "db"))
      /\ ~resource_dir_ok /\ portable_db_file
      /\ pc[t] = "idle" /\ op[t] = "get" /\ kind[t] = "db"
      /\ "db" \notin seen[t]
      /\ result[t] = Ok([root |-> "app_data_dir", str |-> <<>>,
                         comps |-> <<"data", "backups">>])

\* C10: a create_savedata_backup call whose source path does not exist, or
\* exists and is no directory, returns the error of an invalid source, and
\* no step of it up to that return changes the disk: no backup root, no
\* game directory, no archive file.
C10_InvalidSourceCreatesNothing ==
    [][ \A t \in Tasks :
          /\ (b_pc[t] \in {"idle", "exists", "is_dir"} /\ b_pc'[t] /= b_pc[t])
             => disk' = disk
          /\ (b_pc[t] = "exists" /\ b_pc'[t] /= "exists"
                /\ src_kind[b_source[t]] = "absent")
             => (b_pc'[t] = "idle" /\ b_result'[t].tag = "Err"
                 /\ b_result'[t].err = "source_missing")
          /\ (b_pc[t] = "is_dir" /\ b_pc'[t] /= "is_dir"
                /\ src_kind[b_source[t]] = "file")
             => (b_pc'[t] = "idle" /\ b_result'[t].tag = "Err"
                 /\ b_result'[t].err = "source_not_a_directory") ]_vars

\* One call was refused for a missing source and another for a source that
\* is a file, and the disk holds nothing.
C10_Witness ==
    \E t, u \in Tasks :
      /\ b_pc[t] = "idle" /\ b_result[t] = BErr("source_missing")
      /\ b_pc[u] = "idle" /\ b_result[u] = BErr("source_not_a_directory")
      /\ ~root_exists /\ game_dirs = {}
      /\ \A n \in ArchiveNames : archives[n].status = "none"


\* ------------------------------------------------ claims on the archive

\* The regular files of a source tree.
RegularFiles(T) == {p \in TreePaths : T[p] \in FileBytes}

\* The names of a path joined with "/", each as to_string_lossy prints it,
\* and as they are.
RECURSIVE JoinNames(_, _)
JoinNames(p, lossy) ==
    IF p = <<>> THEN <<>>
    ELSE LET n == IF lossy THEN to_string_lossy(Head(p)) ELSE Head(p)
         IN IF Tail(p) = <<>> THEN <<n>>
            ELSE <<n, "/">> \o JoinNames(Tail(p), lossy)

\* Every regular file of the tree has been pushed, and nothing else.
AllFilesAdded ==
    /\ Len(sz) = Cardinality(RegularFiles(tree))
    /\ \A p \in RegularFiles(tree) :
         \E i \in 1..Len(sz) :
            sz[i] = [name |-> JoinNames(p, TRUE), content |-> tree[p]]

\* C11: create_backup returns success only when every regular file under the
\* source was added and the archive was finished; whenever it returns with
\* the archive not finished or not all files added, it returns the
\* archive-creation error, and what was written until then may remain at the
\* destination.
C11_SuccessOnlyWhenArchiveComplete ==
    (a_pc = "idle" /\ a_result /= BNoResult)
        => /\ a_result.tag = "Ok"
                => /\ AllFilesAdded
                   /\ a_file = [status |-> "complete", entries |-> sz]
           /\ (a_file.status /= "complete" \/ ~AllFilesAdded)
                => a_result = BErr("create_archive")
           /\ a_result.tag = "Err" => a_result = BErr("create_archive")

\* A failed call has left a partly written archive behind.
C11_Witness ==
    /\ a_pc = "idle"
    /\ a_result = BErr("create_archive")
    /\ a_file.status = "partial"
    /\ Len(a_file.entries) >= 1
    /\ Len(a_file.entries) < Cardinality(RegularFiles(tree))

\* What extracting an archive gives: a file for every entry name, with the
\* content of the last entry of that name.
Extract(entries) ==
    {entries[i] : i \in {j \in 1..Len(entries) :
                            \A k \in (j + 1)..Len(entries) :
                                entries[k].name /= entries[j].name}}

\* A tree as the set of its regular files, by relative path.
FilesByRelativePath(T) ==
    {[name |-> JoinNames(p, FALSE), content |-> T[p]] : p \in RegularFiles(T)}

\* C12: extracting a finished archive gives back the source tree: the entry
\* names are the relative paths of the regular files joined with "/", each
\* entry holds its file's bytes, and a directory without files gives no entry.
C12_ArchiveThenExtractIsIdentity ==
    a_file.status = "complete"
        => Extract(a_file.entries) = FilesByRelativePath(tree)

\* C12, for the trees all of whose names are valid Unicode.
C12_IdentityForUnicodeNames ==
    (a_file.status = "complete"
     /\ \A p \in TreePaths : tree[p] /= "absent" => p[Len(p)] /= "xFF")
        => Extract(a_file.entries) = FilesByRelativePath(tree)

\* ------------------------------------- claims on create_savedata_backup

\* A call of task t returns success in this step.
BackupSucceeds(t) == b_pc[t] = "metadata" /\ b_result'[t].tag = "Ok"

\* C13: when a create_backup call returns success, the archive at the
\* backup_path it returns is a complete archive of that call's own source,
\* whatever another call for the same game does meanwhile.
C13_ConcurrentBackupsIndependent ==
    [][ \A t \in Tasks :
          BackupSucceeds(t)
            => archives'[Unwrap(b_result'[t].info).backup_path]
                 = CompleteArchive(b_source[t]) ]_vars

\* C14: of two create_backup calls made one after the other, the second does
\* not return success with the backup_path the first has returned: the two
\* archives are distinct files, or the second call fails.
C14_SequentialBackupsDistinct ==
    [][ \A t \in Tasks : \A u \in Tasks \ {t} :
          (BackupSucceeds(t) /\ b_result[u].tag = "Ok")
            => Unwrap(b_result'[t].info).backup_path
                 /= Unwrap(b_result[u].info).backup_path ]_vars

\* ---------------------------------------- claims on the delete commands

\* A call of the named command returns in this step.
DeleteReturns(name) == d_op = name /\ d_pc /= "idle" /\ d_pc' = "idle"

\* The place the path argument names on the host.
PlaceGiven == Path_new(host, d_path)

\* C15: delete_backup of a path at which nothing exists returns the
\* backup-not-found error and changes nothing; of a path that names an
\* existing file on the host it does not return that error, and when it
\* returns success the file is gone (so that a second delete_backup of the
\* path returns backup-not-found).
C15_DeleteBackupFindsTheFile ==
    [][ DeleteReturns("delete_savedata_backup")
          => /\ ~exists(files, PlaceGiven)
                  => /\ d_result' = UnitErr("backup_not_found")
                     /\ files' = files
             /\ PlaceGiven \in files
                  => /\ d_result' \in {UnitOk, UnitErr("remove_backup")}
                     /\ d_result' = UnitOk => files' = files \ {PlaceGiven}
                     /\ d_result' /= UnitOk => files' = files ]_vars

\* C19: delete_file of a path at which nothing exists returns success and
\* changes nothing, and after a delete_file that returned success nothing
\* exists at the path: every further delete_file of it returns success and
\* leaves the disk as the first one left it.
C19_DeleteFileIdempotent ==
    [][ DeleteReturns("delete_file")
          => /\ ~exists(files, PlaceGiven)
                  => d_result' = UnitOk /\ files' = files
             /\ d_result' = UnitOk
                  => /\ ~exists(files', PlaceGiven)
                     /\ files' = files \ {PlaceGiven} ]_vars

\* delete_file has returned success on a path at which nothing is, with
\* files at other paths still on the disk.
C19_Witness ==
    /\ d_op = "delete_file"
    /\ d_pc = "idle"
    /\ d_result = UnitOk
    /\ ~exists(files, PlaceGiven)
    /\ files /= {}

\* --------------------------------------- claims on move_backup_folder

\* The last call of move_backup_folder has returned.
MoveReturned == m_pc = "idle" /\ m_result /= NoMoveResult

\* C16, as stated: a call made while something is at new_path returns the
\* destination-exists result and leaves old_path and new_path as they were.
C16_ExistingDestinationAlwaysFails ==
    IsSome(m_at_call.new)
        => /\ DiskAtCall = m_at_call
           /\ MoveReturned
                => m_result = MoveResult(FALSE, "destination_exists")

\* C16: a call made while something is at old_path and something is at
\* new_path returns the destination-exists result, and at no moment of the
\* call is either folder, or the parent of new_path, other than it was.
C16_ExistingDestinationFailsWhenOldExists ==
    (IsSome(m_at_call.old) /\ IsSome(m_at_call.new))
        => /\ DiskAtCall = m_at_call
           /\ MoveReturned
                => m_result = MoveResult(FALSE, "destination_exists")

\* Such a call has returned, both folders holding something.
C16_Witness ==
    /\ MoveReturned
    /\ IsSome(m_at_call.old) /\ Unwrap(m_at_call.old) /= {}
    /\ IsSome(m_at_call.new) /\ Unwrap(m_at_call.new) /= Unwrap(m_at_call.old)
    /\ m_result = MoveResult(FALSE, "destination_exists")

\* C17: a call made while nothing is at old_path returns success, and at no
\* moment of it is new_path or its parent other than it was: neither is
\* created, and a folder at new_path is left as it is.
C17_MissingOldIsNoOp ==
    ~IsSome(m_at_call.old)
        => /\ DiskAtCall = m_at_call
           /\ MoveReturned => m_result = MoveResult(TRUE, "nothing_to_move")

\* Such a call has returned with the parent of new_path still missing.
C17_Witness ==
    /\ MoveReturned
    /\ ~IsSome(m_at_call.old)
    /\ ~new_parent /\ ~IsSome(new_dir)
    /\ m_result.success

\* C18: the folder is renamed first, and copied only after the rename failed,
\* and deleted at old_path only after the copy succeeded. A call that found
\* something at old_path returns success only with all of it at new_path and
\* nothing at old_path; when the copy succeeded and the deletion failed it
\* returns a failure of its own, other than that of a failed copy, with the
\* full copy at new_path and old_path still there.
C18_RenameThenCopyThenDelete ==
    /\ [](  (MoveReturned /\ IsSome(m_at_call.old))
            => /\ m_result.success
                    => new_dir = m_at_call.old /\ ~IsSome(old_dir)
               /\ m_result.message = "copied_but_not_deleted"
                    => /\ ~m_result.success
                       /\ new_dir = m_at_call.old
                       /\ IsSome(old_dir)
               /\ m_result.message = "move_failed"
                    => ~m_result.success /\ old_dir = m_at_call.old )
    /\ [][ /\ m_pc' = "copy" => (m_pc = "rename" /\ UNCHANGED <<old_dir, new_dir>>)
           /\ m_pc' = "remove" => (m_pc = "copy" /\ new_dir' = old_dir)
           /\ (m_pc = "rename" /\ m_pc' = "idle")
                => /\ m_result' = MoveResult(TRUE, "moved")
                   /\ new_dir' = old_dir /\ ~IsSome(old_dir') ]_vars

\* The copy is complete and the old folder could not be deleted.
C18_Witness ==
    /\ MoveReturned
    /\ m_result = MoveResult(FALSE, "copied_but_not_deleted")
    /\ IsSome(old_dir)
    /\ IsSome(new_dir) /\ Unwrap(new_dir) /= {}

\* ------------------------------------------- claims on the statistics

RECURSIVE SumPlaytime(_)
SumPlaytime(ds) ==
    IF ds = <<>> THEN 0 ELSE Head(ds).playtime + SumPlaytime(Tail(ds))

\* The daily_stats entries of a stored row.
DailyStatsOf(row) == parse_daily_stats(Unwrap(row.daily_stats))

\* A stored row whose total_time is the sum of its daily_stats playtimes.
TotalIsSum(row) ==
    /\ DailyStatsOf(row).ok
    /\ Unwrap(row.total_time) = SumPlaytime(DailyStatsOf(row).value)

\* C20, as stated: every stored row has total_time equal to the sum of the
\* playtimes of its daily_stats entries.
C20_TotalIsSumOfDailyStats ==
    \A g \in StatsGameIds :
        IsSome(game_statistics[g]) => TotalIsSum(Unwrap(game_statistics[g]))

\* A row is written by the call of task t in this step.
WrittenBy(t, g) ==
    /\ s_pc[t] = "write" /\ s_pc'[t] = "idle"
    /\ s_args[t].game_id = g
    /\ game_statistics'[g] /= game_statistics[g]

\* C20: a stored row holds what the call that wrote it last was given:
\* init_statistics_if_not_exists writes a total of 0 and no entries, where
\* there was no row; update_statistics writes the caller's total_time and the
\* caller's daily_stats as they are. The total is the sum of the playtimes
\* exactly when the caller's arguments were so.
C20_RowIsWhatTheCallerPassed ==
    [][ \A g \in StatsGameIds :
          game_statistics'[g] /= game_statistics[g]
            => \E t \in Tasks :
                 /\ WrittenBy(t, g)
                 /\ IsSome(game_statistics'[g])
                 /\ LET row == Unwrap(game_statistics'[g])
                    IN IF s_args[t].op = "init_statistics_if_not_exists"
                       THEN /\ ~IsSome(game_statistics[g])
                            /\ row.total_time = Some(0)
                            /\ DailyStatsOf(row) = Parsed(<<>>)
                            /\ TotalIsSum(row)
                       ELSE \E ds \in DailyStatsInputs :
                              /\ s_args[t].daily_stats_json = to_string(ds)
                              /\ row.total_time = Some(s_args[t].total_time)
                              /\ DailyStatsOf(row) = Parsed(ds)
                              /\ TotalIsSum(row)
                                   <=> s_args[t].total_time = SumPlaytime(ds)
      ]_vars

\* update_statistics has stored a row of two entries whose total is their sum.
C20_Witness ==
    \E g \in StatsGameIds :
        /\ IsSome(game_statistics[g])
        /\ Unwrap(game_statistics[g]).total_time = Some(13)
        /\ Len(DailyStatsOf(Unwrap(game_statistics[g])).value) = 2
        /\ TotalIsSum(Unwrap(game_statistics[g]))
        /\ \E t \in Tasks : s_pc[t] = "idle" /\ s_result[t] = UnitOk


\* The call of task t returns in this step.
StatsReturns(t, operation) ==
    /\ s_pc[t] /= "idle" /\ s_pc'[t] = "idle"
    /\ s_args[t].op = operation

TotalOf(row) == Unwrap(Unwrap(row).total_time)

UniqueDates(ds) ==
    \A i, j \in 1..Len(ds) : ds[i].date = ds[j].date => i = j

DatesOf(ds) == [i \in 1..Len(ds) |-> ds[i].date]

\* C22, as stated: the stored daily_stats list of each game holds at most
\* one entry per date.
C22_OneEntryPerDate ==
    \A g \in StatsGameIds :
        IsSome(game_statistics[g])
          => /\ DailyStatsOf(Unwrap(game_statistics[g])).ok
             /\ UniqueDates(DailyStatsOf(Unwrap(game_statistics[g])).value)

\* C22: the stored daily_stats list of a game holds the dates of the list the
\* last update_statistics was given, in its order and as often as it has
\* them (none after init_statistics_if_not_exists): it holds at most one
\* entry per date exactly when the caller's list does.
C22_StoredDatesAreTheCallersDates ==
    [][ \A t \in Tasks :
          LET g == s_args[t].game_id
              stored == DailyStatsOf(Unwrap(game_statistics'[g]))
          IN /\ StatsReturns(t, "update_statistics") /\ s_result'[t] = UnitOk
                  => /\ IsSome(game_statistics'[g])
                     /\ stored.ok
                     /\ \E ds \in DailyStatsInputs :
                          /\ s_args[t].daily_stats_json = to_string(ds)
                          /\ DatesOf(stored.value) = DatesOf(ds)
                          /\ UniqueDates(stored.value) <=> UniqueDates(ds)
             /\ StatsReturns(t, "init_statistics_if_not_exists")
                /\ game_statistics'[g] /= game_statistics[g]
                  => stored = Parsed(<<>>)
      ]_vars

\* update_statistics has stored a list with two entries of one date.
C22_Witness ==
    \E g \in StatsGameIds :
        /\ IsSome(game_statistics[g])
        /\ Len(DailyStatsOf(Unwrap(game_statistics[g])).value) = 2
        /\ ~UniqueDates(DailyStatsOf(Unwrap(game_statistics[g])).value)
        /\ \E t \in Tasks : s_pc[t] = "idle" /\ s_result[t] = UnitOk

\* C23: when update_statistics(g, total_time, session_count, last_played,
\* daily_stats) returns Ok, the row of g holds total_time, session_count and
\* last_played as given and a daily_stats that reads back as the list given,
\* whether or not g had a row and whatever it held; the row of every other
\* game is as it was.
C23_UpdateReplacesTheRow ==
    [][ \A t \in Tasks :
          StatsReturns(t, "update_statistics") /\ s_result'[t] = UnitOk
            => LET g == s_args[t].game_id
               IN /\ IsSome(game_statistics'[g])
                  /\ Unwrap(game_statistics'[g]).total_time
                       = Some(s_args[t].total_time)
                  /\ Unwrap(game_statistics'[g]).session_count
                       = Some(s_args[t].session_count)
                  /\ Unwrap(game_statistics'[g]).last_played
                       = s_args[t].last_played
                  /\ \E ds \in DailyStatsInputs :
                       /\ s_args[t].daily_stats_json = to_string(ds)
                       /\ IsSome(Unwrap(game_statistics'[g]).daily_stats)
                       /\ DailyStatsOf(Unwrap(game_statistics'[g])) = Parsed(ds)
                  /\ \A h \in StatsGameIds \ {g} :
                       game_statistics'[h] = game_statistics[h]
      ]_vars

\* update_statistics has written over the row init_statistics_if_not_exists
\* made for a game, while another game keeps the row made for it.
C23_Witness ==
    \E g, h \in StatsGameIds, t \in Tasks :
        /\ g /= h
        /\ s_pc[t] = "idle" /\ s_result[t] = UnitOk
        /\ IsSome(game_statistics[g])
        /\ Unwrap(game_statistics[g]).session_count = Some(1)
        /\ Unwrap(game_statistics[g]).last_played = Some(1)
        /\ game_statistics[h] = Some(StatsRow(0, 0, None, <<"[", "]">>))

\* C24: of two concurrent update_statistics calls on one game, each succeeds
\* and leaves the row holding its four fields when it returns, so that the
\* row ends as the call that wrote last gave it, also when the game had no
\* row before either call.
C24_ConcurrentUpdatesBothSucceed ==
    [][ \A t \in Tasks :
          StatsReturns(t, "update_statistics")
            => /\ s_result'[t] = UnitOk
               /\ game_statistics'[s_args[t].game_id]
                    = Some(StatsRow(s_args[t].total_time, s_args[t].session_count,
                                    s_args[t].last_played,
                                    s_args[t].daily_stats_json))
      ]_vars

C26_EveryInitSucceeds ==
    [][ \A t \in Tasks :
          StatsReturns(t, "init_statistics_if_not_exists")
            => LET g == s_args[t].game_id
               IN /\ s_result'[t] = UnitOk
                  /\ game_statistics'[g] =
                       IF IsSome(game_statistics[g]) THEN game_statistics[g]
                       ELSE Some(StatsRow(0, 0, None, <<"[", "]">>))
      ]_vars


\* ------------------------------------------- claims on the cache and failures

\* The override a get call of kind k resolves from the settings row as it is
\* now.
OverrideNow(k) ==
    IF k = "db" THEN get_db_backup_path_from_db(user)
    ELSE get_save_root_path_from_db(user)

\* C28: once the settings row has been written and a clear_cache after that
\* has completed, no get call stores a path resolved from the settings as
\* they were before the write: the override a call resolved its path from is
\* the override of the row as it is when the call stores.
C28_NoStaleStoreAfterClear ==
    [][ \A t \in Tasks :
          /\ pc[t] = "store" /\ pc'[t] = "idle"
          /\ \E u \in Tasks : op[u] = "clear_cache" /\ pc[u] = "idle"
          => custom_path[t] = OverrideNow(kind[t])
      ]_vars

\* C29: a get call that returns an error changes neither cache entry in any
\* of its steps, and the next call of its kind that finds no entry queries
\* the settings again; a get call that stores after a miss sets the entry of
\* its own kind to the path it returns and leaves the other entry as it is.
C29_FailureIsNotCached ==
    [][ \A t \in Tasks :
          op'[t] = "get" /\ pc'[t] /= pc[t]
            => /\ pc[t] /= "store" => cache' = cache
               /\ Returns(t) /\ result'[t].tag = "Err" => cache' = cache
               /\ pc[t] = "check" /\ ~IsSome(Entry(cache, kind[t]))
                    => pc'[t] = "query"
               /\ pc[t] = "store"
                    => /\ result'[t].tag = "Ok"
                       /\ Entry(cache', kind[t]) = Some(result'[t].path)
                       /\ \A k \in Kinds \ {kind[t]} :
                            Entry(cache', k) = Entry(cache, k)
      ]_vars

\* A get call has failed and left the entry of its kind empty, while the
\* entry of the other kind, stored by an earlier call, is populated.
C29_Witness ==
    \E t \in Tasks :
        /\ pc[t] = "idle" /\ op[t] = "get" /\ result[t].tag = "Err"
        /\ ~IsSome(Entry(cache, kind[t]))
        /\ \E k \in Kinds \ {kind[t]} : IsSome(Entry(cache, k))


\* ------------------------------------ claims on delete_game_covers

\* A file name that starts with cover_{game_id}_.
IsCoverOf(name, game_id) ==
    LET pattern == <<"cover", "_">> \o to_decimal(game_id) \o <<"_">>
    IN \E n \in 1..Len(name) : SubSeq(name, 1, n) = pattern

FilesOf(dir) == IF IsSome(dir) THEN Unwrap(dir) ELSE {}

\* C27: no step of delete_game_covers removes a file whose name does not
\* start with cover_{game_id}_, and a removal that fails does not end the
\* call; when the loop ends the call returns Ok, also after removals that
\* failed, and every file of that pattern is gone except those whose removal
\* failed; a covers directory that does not exist is Ok with nothing changed.
C27_DeleteCoversBestEffort ==
    [][ /\ IsSome(covers') = IsSome(covers)
        /\ FilesOf(covers') \subseteq FilesOf(covers)
        /\ \A name \in FilesOf(covers) \ FilesOf(covers') :
             IsCoverOf(name, c_game_id)
        /\ c_failed' /= c_failed /\ c_pc /= "idle"
             => c_pc' = "entries" /\ c_result' = UnitNoResult
        /\ c_pc = "exists" /\ ~IsSome(covers)
             => c_pc' = "idle" /\ c_result' = UnitOk /\ covers' = covers
        /\ c_pc = "entries" /\ c_pc' = "idle" /\ c_result'.tag = "Ok"
             => /\ c_result' = UnitOk
                /\ FilesOf(covers') =
                     {name \in FilesOf(c_before) :
                        ~IsCoverOf(name, c_game_id) \/ name \in c_failed}
        /\ c_pc /= "idle" /\ c_pc' = "idle" /\ c_result'.tag = "Err"
             => c_result'.err \in {"read_dir", "entry"}
      ]_vars

\* delete_game_covers(1, ..) has returned Ok over a directory with both
\* covers of game 1 and other files: the removal of one cover failed, the
\* other cover is gone, and the other files are there.
C27_Witness ==
    /\ c_pc = "idle" /\ c_result = UnitOk /\ c_game_id = 1
    /\ FilesOf(c_before) = CoverNames
    /\ c_failed = {<<"cover", "_", "1", "_", "a">>}
    /\ FilesOf(covers) = CoverNames \ {<<"cover", "_", "1", "_", "b">>}

\* ------------------------------------ claims on the games repository

\* The row of table tb a call has written for the game id, or left alone.
RowAfter(tb, id) ==
    IF IsSome(g_call.data[tb]) THEN g_call.data[tb]
    ELSE g_call.before[tb][id]

\* C30: when insert_with_related or update_with_related returns an error,
\* whichever of its statements failed, the tables are as they were when the
\* call began; when it returns Ok, the game row and every related row passed
\* are written; and the tables change in no step but the commit.
C30_AllOrNothing ==
    [][ /\ g_pc /= "commit" => tables' = tables
        /\ g_pc /= "idle" /\ g_pc' = "idle"
             => /\ txn' = None
                /\ IF g_result'.tag = "Err"
                   THEN tables' = g_call.before
                   ELSE /\ g_call.op = "insert_with_related"
                             => /\ g_result'.value = g_call.game_id
                                /\ ~IsSome(g_call.before.games[g_call.game_id])
                        /\ \A tb \in TableNames, id \in GameRowIds :
                             tables'[tb][id] =
                               IF id = g_call.game_id THEN RowAfter(tb, id)
                               ELSE g_call.before[tb][id]
      ]_vars

\* A call has returned an error after statements of its transaction had
\* written, over tables that held a game, and the tables are as before it.
C30_Witness ==
    /\ g_pc = "idle" /\ g_result.tag = "Err" /\ g_call.wrote
    /\ tables = g_call.before
    /\ \E id \in GameRowIds : IsSome(tables.games[id])

====
